---- MODULE Spec2Model ----
(***************************************************************************)
(* Client of the supervision system: the shared axios instance with its    *)
(* request/response interceptors (services/api.ts), the persisted auth     *)
(* store (store/authStore.ts), the login page, the header's logout, and    *)
(* the workflow template / instance pages with their react-query           *)
(* mutations.  The REST backend is not part of the client sources; where a *)
(* property depends on it, the backend is modelled from its contract.      *)
(***************************************************************************)
EXTENDS Integers, Sequences, FiniteSets, TLC

VARIABLES
    isAuthenticated, user, token, refreshToken, \* useAuthStore state
    persisted,       \* the copy the persist middleware keeps under 'auth-storage'
    location,        \* current route: window.location.href / react-router navigate
    calls,           \* the requests issued through the shared axios instance
    \* WorkflowTemplates page and the templates the backend holds
    srvTemplates,    \* ids of the templates that exist on the backend
    tplBuiltin,      \* ids of the templates whose is_builtin flag is true
    tplCurrentPage, tplSearchFilters, selectedRowKeys,
    tplData,         \* rows of the table: the list query's latest data
    tplFetching,     \* the list query is being (re)fetched
    tplDeleting,     \* ids with a deleteTemplate mutation in flight
    tplDeleteLatest, \* id of the latest deleteMutation.mutate while it is in flight
    \* WorkflowInstances page and the instances the backend holds
    srvInstances,    \* backend status of each instance
    instData,        \* status of each row as last fetched
    instFetching,    \* the instance list query is being (re)fetched
    startPending,    \* id of the startInstance mutation in flight
    lastStart,       \* how the latest startInstance mutation ended
    \* MyTasks page and the nodes the backend holds
    srvTasks,        \* backend: status of each node and whether it is assigned to the user
    taskData,        \* status of each row of the task table as last fetched
    taskStats,       \* the displayed count of open tasks as last fetched
    tasksFetching, statsFetching,  \* the 'my-tasks' / 'user-task-stats' query is (re)fetching
    completeModalVisible, detailModalVisible, selectedTask,
    formValues,      \* the completion form: empty or filled in
    completePending, \* id of the completeTask mutation in flight
    lastComplete,    \* how the latest completeTask mutation ended
    \* SupervisionDetail page, supervisionService and the item the backend holds
    srvSupStatus,    \* backend: status of the supervision item
    srvReports,      \* backend: the item's progress reports, oldest first
    srvLogs,         \* backend: the item's status log (new_status of each entry)
    supData,         \* the item's status as last fetched ('supervision-detail')
    supFetching, reportsFetching, logsFetching,  \* the three queries of the page
    statusModalVisible, selectedStatus, statusPending,
    reportModalVisible, reportForm, reportPending,
    supRequest,      \* the latest write request sent by supervisionService
    \* list calls of the resource services
    listTotal,       \* backend: number of items of the resource
    listCall,        \* the list call made: service and its page / size arguments
    listQuery,       \* the pagination keys of the query it sends
    listItems,       \* the positions (1..total) of the items returned
    \* MonitoringDashboard page, monitoringService and the backend's alerts
    srvAlerts,       \* backend: each alert is absent, open or resolved
    alertLevel,      \* the level filter, part of the key of 'monitoring-alerts'
    alertsCache,     \* 'monitoring-alerts' data per key: the rows last fetched for it
    alertsFetching,  \* the keys of 'monitoring-alerts' being fetched
    monStats,        \* 'monitoring-stats' data: the displayed number of open alerts
    monStatsFetching,
    monResolving,    \* ids with a resolveAlert request in flight
    monConsole,      \* id written by the latest console.log of the handle action
    \* WorkflowTemplates page, the create / edit dialog and the stored templates
    srvTplName,      \* backend: name of each template, 0 while it does not exist
    srvTplDefinition,\* backend: definition of each template: none, graph or empty
    edRows,          \* 'workflow-templates' data: the name shown in each row, 0 if no row
    edFetching,
    modalVisible, editingTemplate,
    formName,        \* the form's name field, 0 while empty
    savePending,     \* the saveMutation in flight: its target and the data sent
    \* SupervisionForm page in edit mode and the item the backend holds
    srvItemStatus,   \* backend: status of the item being edited
    formMounted,     \* the route is /supervision/edit/:id
    formDetailLoaded,\* 'supervision-detail' has settled and filled the form
    formStatus,      \* the form's status field
    formComplete,    \* every required field of the form holds a value
    updatesInFlight, \* status of the body of each updateSupervisionItem in flight
    \* utils/apiTest.ts: the apiTester of the page's window
    testResults,     \* this.results: endpoint and status of each result
    testPos,         \* the endpoint being awaited by runAllTests, 0 while no run is in progress
    testOutcome,     \* how the latest awaited call settled
    testNavigating,  \* window.location.href was assigned: the document is being replaced
    \* SupervisionList page: batch deletion, and the items the backend holds
    srvItems,        \* backend: ids of the supervision items that exist
    blData,          \* 'supervision-list' data: ids of the rows displayed
    blFetching,
    blSelected,      \* selectedRowKeys
    batchIds,        \* ids passed to the batchDeleteMutation in progress or last settled
    batchLoading,    \* batchDeleteMutation.isLoading
    deletesInFlight, \* delete requests of the mutation in progress
    deletesDetached, \* delete requests still in flight after their mutation was rejected
    blOutcome,       \* how the delete request settled last: fulfilled or rejected
    blMsg,           \* the message shown by the mutation settled last
    storeCall,       \* the store action a component called last, and the state it was called in
    \* App routes
    mounted          \* the page the router renders

authVars == <<isAuthenticated, user, token, refreshToken, persisted>>
httpVars == <<isAuthenticated, user, token, refreshToken, persisted, location, calls>>
tplVars == <<srvTemplates, tplBuiltin, tplCurrentPage, tplSearchFilters, selectedRowKeys,
             tplData, tplFetching, tplDeleting, tplDeleteLatest>>
wfVars == <<srvInstances, instData, instFetching, startPending, lastStart>>
taskVars == <<srvTasks, taskData, taskStats, tasksFetching, statsFetching, completeModalVisible,
              detailModalVisible, selectedTask, formValues, completePending, lastComplete>>
supVars == <<srvSupStatus, srvReports, srvLogs, supData, supFetching, reportsFetching,
             logsFetching, statusModalVisible, selectedStatus, statusPending,
             reportModalVisible, reportForm, reportPending, supRequest>>
listVars == <<listTotal, listCall, listQuery, listItems>>
monVars == <<srvAlerts, alertLevel, alertsCache, alertsFetching, monStats, monStatsFetching,
             monResolving, monConsole>>
edVars == <<srvTplName, srvTplDefinition, edRows, edFetching, modalVisible, editingTemplate,
            formName, savePending>>
pageVars == <<mounted>>
formVars == <<srvItemStatus, formMounted, formDetailLoaded, formStatus, formComplete,
              updatesInFlight>>
testerVars == <<testResults, testPos, testOutcome, testNavigating>>
batchVars == <<srvItems, blData, blFetching, blSelected, batchIds, batchLoading,
               deletesInFlight, deletesDetached, blOutcome, blMsg>>

storeVars == <<storeCall>>
vars == <<httpVars, tplVars, wfVars, taskVars, supVars, listVars, monVars, edVars, pageVars, formVars, testerVars, batchVars, storeVars>>

\* what the steps of one part of the client leave alone
otherThanHttp == <<tplVars, wfVars, taskVars, supVars, listVars, monVars, edVars, pageVars, formVars, testerVars, batchVars, storeVars>>
otherThanTpl == <<httpVars, wfVars, taskVars, supVars, listVars, monVars, edVars, pageVars, formVars, testerVars, batchVars, storeVars>>
otherThanWf == <<httpVars, tplVars, taskVars, supVars, listVars, monVars, edVars, pageVars, formVars, testerVars, batchVars, storeVars>>
otherThanTasks == <<httpVars, tplVars, wfVars, supVars, listVars, monVars, edVars, pageVars, formVars, testerVars, batchVars, storeVars>>
otherThanSup == <<httpVars, tplVars, wfVars, taskVars, listVars, monVars, edVars, pageVars, formVars, testerVars, batchVars, storeVars>>
otherThanList == <<httpVars, tplVars, wfVars, taskVars, supVars, monVars, edVars, pageVars, formVars, testerVars, batchVars, storeVars>>
otherThanMon == <<httpVars, tplVars, wfVars, taskVars, supVars, listVars, edVars, pageVars, formVars, testerVars, batchVars, storeVars>>
otherThanEdit == <<httpVars, tplVars, wfVars, taskVars, supVars, listVars, monVars, pageVars, formVars, testerVars, batchVars, storeVars>>
otherThanPage == <<httpVars, tplVars, wfVars, taskVars, supVars, listVars, monVars, edVars, formVars, testerVars, batchVars, storeVars>>
otherThanForm == <<httpVars, tplVars, wfVars, taskVars, supVars, listVars, monVars, edVars, pageVars, testerVars, batchVars, storeVars>>
otherThanTester == <<httpVars, tplVars, wfVars, taskVars, supVars, listVars, monVars, edVars, pageVars, formVars, batchVars, storeVars>>
otherThanBatch == <<httpVars, tplVars, wfVars, taskVars, supVars, listVars, monVars, edVars, pageVars, formVars, testerVars, storeVars>>
otherThanStore == <<httpVars, tplVars, wfVars, taskVars, supVars, listVars, monVars, edVars, pageVars, formVars, testerVars, batchVars>>

----------------------------------------------------------------------------
(* Bounds and value domains *)

MaxCalls == 2      \* call slots that can be in flight at the same time
MaxWire == 6       \* transmissions (original, refresh, re-sent ...) of the calls in flight
MaxTemplates == 3  \* workflow templates on the backend
MaxInstances == 2  \* workflow instances that can be created
MaxTasks == 1      \* workflow nodes (tasks) on the backend
MaxReports == 2    \* progress reports of the supervision item
MaxLogs == 2       \* status log entries of the supervision item
MaxEditable == 2   \* templates of the create / edit dialog's model
MaxNames == 2      \* names that can be typed into the template form
MaxUpdates == 2    \* updateSupervisionItem requests in flight at the same time
MaxItems == 2      \* supervision items of the list page's model
MaxAlerts == 1     \* monitoring alerts the backend can raise
MaxTotal == 5      \* items of a listed resource
MaxPage == 3       \* page argument of a list call
MaxSize == 2       \* size argument of a list call

\* params.size || 20 in getUsers and getSupervisionItems
DefaultSize == 20
TplPageSize == 2   \* rows per page of the template table

Calls == 1..MaxCalls

Null == "null"
\* the access tokens the backend hands out at refresh
AccessTokens == {"a1", "a2"}

----------------------------------------------------------------------------
(* Auth store: store/authStore.ts *)

Store == [isAuthenticated |-> isAuthenticated, user |-> user,
          token |-> token, refreshToken |-> refreshToken]

login(s, t, rt, u) ==
    [isAuthenticated |-> TRUE, token |-> t, refreshToken |-> rt, user |-> u]

logout(s) ==
    [isAuthenticated |-> FALSE, user |-> Null, token |-> Null, refreshToken |-> Null]

\* an updateUser whose set replaces the state instead of merging into it
updateUserReplacing(s, u) ==
    [isAuthenticated |-> FALSE, user |-> u, token |-> Null, refreshToken |-> Null]

updateUser(s, u) == [s EXCEPT !.user = u]

\* a setToken that stores nothing
setTokenDropped(s, t) == s

setToken(s, t) == [s EXCEPT !.token = t]

\* the state the store is created with
StoreInitial ==
    [isAuthenticated |-> FALSE, user |-> Null, token |-> Null, refreshToken |-> Null]

\* persist's partialize: the fields written to storage
partialize(state) ==
    [isAuthenticated |-> state.isAuthenticated, user |-> state.user,
     token |-> state.token, refreshToken |-> state.refreshToken]

\* set(...) under the persist middleware: the new state, then its copy written to storage
StoreBecomes(s) ==
    /\ isAuthenticated' = s.isAuthenticated
    /\ user' = s.user
    /\ token' = s.token
    /\ refreshToken' = s.refreshToken
    /\ persisted' = partialize(s)

----------------------------------------------------------------------------
(* The store's actions called directly: useAuthStore.getState().<action>(...) *)

\* the values the callers pass
UserInputs == {"u1", "u2"}
RefreshInputs == {"r1", "r2"}

NoArgs == [token |-> Null, refreshToken |-> Null, user |-> Null]
NoStoreCall == [op |-> "none", before |-> StoreInitial, args |-> NoArgs]

\* the page state a store action does not touch
besideStore == <<tplVars, wfVars, taskVars, supVars, listVars, monVars, edVars,
                 pageVars, formVars, testerVars, batchVars>>

StoreLogin(t, rt, u) ==
    /\ StoreBecomes(login(Store, t, rt, u))
    /\ storeCall' = [op |-> "login", before |-> Store,
                     args |-> [token |-> t, refreshToken |-> rt, user |-> u]]
    /\ UNCHANGED <<location, calls, besideStore>>

StoreLogout ==
    /\ StoreBecomes(logout(Store))
    /\ storeCall' = [op |-> "logout", before |-> Store, args |-> NoArgs]
    /\ UNCHANGED <<location, calls, besideStore>>

StoreUpdateUser(u) ==
    /\ StoreBecomes(updateUser(Store, u))
    /\ storeCall' = [op |-> "updateUser", before |-> Store,
                     args |-> [NoArgs EXCEPT !.user = u]]
    /\ UNCHANGED <<location, calls, besideStore>>

StoreSetToken(t) ==
    /\ StoreBecomes(setToken(Store, t))
    /\ storeCall' = [op |-> "setToken", before |-> Store,
                     args |-> [NoArgs EXCEPT !.token = t]]
    /\ UNCHANGED <<location, calls, besideStore>>

InitStoreCalls == storeCall = NoStoreCall

NextStore ==
    \/ \E t \in AccessTokens : \E rt \in RefreshInputs : \E u \in UserInputs :
            StoreLogin(t, rt, u)
    \/ StoreLogout
    \/ \E u \in UserInputs : StoreUpdateUser(u)
    \/ \E t \in AccessTokens : StoreSetToken(t)

----------------------------------------------------------------------------
(* Messages of antd's message.error / message.success, by a tag each *)

MsgLoginExpired == "login expired, log in again"
MsgPleaseLogin == "please log in first"
MsgForbidden == "permission denied"
MsgNotFound == "resource not found"
MsgInvalid == "request validation failed"
MsgServerError == "internal server error"
MsgRequestFailed == "request failed"
MsgNetwork == "network connection failed"
MsgLoginOk == "login succeeded"
MsgLoginFailed == "login failed"
MsgLoginRetry == "login failed, retry"
MsgLogoutOk == "logout succeeded"
ServerMessage == "srv"

----------------------------------------------------------------------------
(* Requests and responses on the wire *)

NoData == [access_token |-> Null, refresh_token |-> Null, user |-> Null]

\* nothing received yet
NoResponse ==
    [st |-> "none", status |-> 0, message |-> Null,
     success |-> FALSE, hasData |-> FALSE, data |-> NoData]

\* error.response is undefined: no response was received
NetworkFailure ==
    [st |-> "noresponse", status |-> 0, message |-> Null,
     success |-> FALSE, hasData |-> FALSE, data |-> NoData]

ErrorResponse(status, msg) ==
    [st |-> "response", status |-> status, message |-> msg,
     success |-> FALSE, hasData |-> FALSE, data |-> NoData]

OkResponse(success, hasData, data) ==
    [st |-> "response", status |-> 200, message |-> Null,
     success |-> success, hasData |-> hasData, data |-> data]

OtherErrorStatuses == {403, 404, 422, 500, 400}

ErrorResponses ==
    {ErrorResponse(s, m) : s \in OtherErrorStatuses, m \in {Null, ServerMessage}}

Unauthorized == ErrorResponse(401, Null)

RefreshBodies ==
    {OkResponse(TRUE, TRUE, [NoData EXCEPT !.access_token = a]) : a \in AccessTokens}

\* the sessions the backend hands out at login
Sessions ==
    {[access_token |-> "a1", refresh_token |-> "r1", user |-> "u1"]}

LoginBodies ==
    {OkResponse(TRUE, TRUE, d) : d \in Sessions}
    \cup {OkResponse(FALSE, FALSE, NoData), OkResponse(TRUE, FALSE, NoData)}
    \cup {OkResponse(FALSE, TRUE, d) : d \in Sessions}

PlainBodies == {OkResponse(TRUE, FALSE, NoData)}

\* A call made through the shared instance.  depth is the transmission in
\* flight: 1 is the caller's request, d + 1 the POST /auth/refresh awaited by
\* the response interceptor that handles the 401 of the frame at depth d.
\* auth is the Authorization header of the transmission in flight, resp the
\* latest response received.  sent, refreshes, total and got401 count what
\* has gone over the wire for this call.
IdleCall ==
    [kind |-> "none", depth |-> 0, auth |-> Null, resp |-> NoResponse,
     sent |-> 0, refreshes |-> 0, total |-> 0, got401 |-> FALSE,
     result |-> "idle", errStatus |-> 0, msgs |-> {}]

----------------------------------------------------------------------------
(* services/api.ts: interceptors *)

\* a request interceptor that leaves the headers as they are
RequestInterceptorSkips(configAuth, s) == configAuth

\* request interceptor: the store's token, read when the request is sent,
\* overrides the Authorization header; with no token the header is left alone
RequestInterceptor(configAuth, s) ==
    IF s.token # Null THEN s.token ELSE configAuth

\* one text for every failure
ErrorMessageGeneric(r) == MsgRequestFailed

\* the switch's cases other than 401, and the no-response branch
ErrorMessage(r) ==
    IF r.st = "noresponse" THEN MsgNetwork
    ELSE IF r.message # Null THEN r.message
    ELSE CASE r.status = 403 -> MsgForbidden
           [] r.status = 404 -> MsgNotFound
           [] r.status = 422 -> MsgInvalid
           [] r.status = 500 -> MsgServerError
           [] OTHER -> MsgRequestFailed

\* an interceptor that returns the error instead of rejecting with it
UnwindResolves(s, call, msgs, redirect) ==
    [s |-> s, redirect |-> redirect,
     call |-> [call EXCEPT !.depth = 1, !.result = "resolved", !.msgs = @ \cup msgs]]

\* The frame in flight was rejected, with the store at s after its own
\* interceptor ran.  A refresh call (depth > 1) is awaited inside the try
\* block of the interceptor one level up, whose catch logs out, redirects and
\* rejects with its own (401) error; so does every level up to the caller.
Unwind(s, call, msgs, redirect) ==
    IF call.depth = 1
    THEN [s |-> s, redirect |-> redirect,
          call |-> [call EXCEPT !.result = "rejected", !.msgs = @ \cup msgs,
                                !.errStatus = call.resp.status]]
    ELSE [s |-> logout(s), redirect |-> TRUE,
          call |-> [call EXCEPT !.result = "rejected",
                                !.msgs = @ \cup msgs \cup {MsgLoginExpired},
                                !.errStatus = 401]]

\* a refresh token is stored: POST /auth/refresh through the same instance
StartRefresh(s, call) ==
    [s |-> s, redirect |-> FALSE,
     call |-> [call EXCEPT !.depth = @ + 1,
                           !.auth = RequestInterceptor(Null, s),
                           !.refreshes = IF call.depth = 1 THEN @ + 1 ELSE @,
                           !.total = @ + 1]]

\* a refresh handler that keeps the token another refresh has stored meanwhile
RefreshResolvedFirstWins(s, call) ==
    LET access_token == call.resp.data.access_token
        s2 == IF s.token = call.auth THEN setToken(s, access_token) ELSE s
    IN [s |-> s2, redirect |-> FALSE,
        call |-> [call EXCEPT !.depth = @ - 1,
                              !.auth = RequestInterceptor(access_token, s2),
                              !.sent = IF call.depth = 2 THEN @ + 1 ELSE @,
                              !.total = @ + 1]]

\* the awaited refresh call resolved: setToken, then re-send the request that
\* had received the 401
RefreshResolved(s, call) ==
    LET access_token == call.resp.data.access_token
        s2 == setToken(s, access_token)
    IN [s |-> s2, redirect |-> FALSE,
        call |-> [call EXCEPT !.depth = @ - 1,
                              !.auth = RequestInterceptor(access_token, s2),
                              !.sent = IF call.depth = 2 THEN @ + 1 ELSE @,
                              !.total = @ + 1]]

\* a case 401 that does not look at the stored refresh token
Handle401AlwaysRefresh(s, call) == StartRefresh(s, call)

\* case 401 of the switch
Handle401(s, call) ==
    IF s.refreshToken # Null
    THEN StartRefresh(s, call)
    ELSE Unwind(logout(s), call, {MsgPleaseLogin}, TRUE)

\* response interceptor, applied to the answer r of the transmission in flight
ResponseInterceptor(s, c0, r) ==
    LET call == [c0 EXCEPT !.resp = r,
                           !.got401 = @ \/ (c0.depth = 1 /\ r.st = "response" /\ r.status = 401)]
    IN IF r.st = "response" /\ r.status = 200
       THEN IF call.depth = 1
            THEN [s |-> s, redirect |-> FALSE, call |-> [call EXCEPT !.result = "resolved"]]
            ELSE RefreshResolved(s, call)
       ELSE IF r.st = "response" /\ r.status = 401
       THEN Handle401(s, call)
       ELSE Unwind(s, call, {ErrorMessage(r)}, FALSE)

----------------------------------------------------------------------------
(* Callers: what runs when the promise of a call settles *)

\* pages/Login/index.tsx onFinish, after authService.login settled
LoginSettled(o, r) ==
    IF o.call.result = "resolved"
    THEN IF r.success /\ r.hasData
         THEN [s |-> login(o.s, r.data.access_token, r.data.refresh_token, r.data.user),
               msgs |-> {MsgLoginOk}, location |-> "/dashboard"]
         ELSE [s |-> o.s,
               msgs |-> {IF r.message # Null THEN r.message ELSE MsgLoginFailed},
               location |-> Null]
    ELSE [s |-> o.s,
          msgs |-> {IF r.st = "response" /\ r.message # Null THEN r.message ELSE MsgLoginRetry},
          location |-> Null]

\* a handleLogout whose catch block leaves the store alone
LogoutSettledOnlyOnSuccess(o, r) ==
    IF o.call.result = "resolved"
    THEN [s |-> logout(o.s), msgs |-> {MsgLogoutOk}, location |-> "/login"]
    ELSE [s |-> o.s, msgs |-> {}, location |-> "/login"]

\* components/Layout/index.tsx handleLogout, after authService.logout settled
LogoutSettled(o, r) ==
    IF o.call.result = "resolved"
    THEN [s |-> logout(o.s), msgs |-> {MsgLogoutOk}, location |-> "/login"]
    ELSE [s |-> logout(o.s), msgs |-> {}, location |-> "/login"]

CallerSettled(kind, o, r) ==
    IF o.call.result = "pending" THEN [s |-> o.s, msgs |-> {}, location |-> Null]
    ELSE CASE kind = "login" -> LoginSettled(o, r)
           [] kind = "logout" -> LogoutSettled(o, r)
           [] OTHER -> [s |-> o.s, msgs |-> {}, location |-> Null]

----------------------------------------------------------------------------
(* Actions of the HTTP client *)

\* a new call takes the first slot that holds no call in flight
Free(c) ==
    /\ calls[c].result # "pending"
    /\ \A k \in 1..(c - 1) : calls[k].result = "pending"

Settled(call) == call.result \in {"resolved", "rejected"}

\* a settled call is kept in its slot for one step, then the slot is free again
Sweep == [c \in Calls |-> IF Settled(calls[c]) THEN IdleCall ELSE calls[c]]

RECURSIVE WireTotal(_, _)
WireTotal(cs, n) == IF n = 0 THEN 0 ELSE cs[n].total + WireTotal(cs, n - 1)

\* bound of the model: the transmissions made so far by the calls in the slots
WithinBound(cs) == WireTotal(cs, MaxCalls) <= MaxWire

NewCall(kind) ==
    [IdleCall EXCEPT !.kind = kind, !.depth = 1,
                     !.auth = RequestInterceptor(Null, Store),
                     !.sent = 1, !.total = 1, !.result = "pending"]

\* any request of a page, a polling query or the console's apiTester
IssueRequest(c) ==
    /\ Free(c)
    /\ calls' = [Sweep EXCEPT ![c] = NewCall("get")]
    /\ WithinBound(calls')
    /\ UNCHANGED <<authVars, location, otherThanHttp>>

\* Login page (rendered while not authenticated), submit button not loading
SubmitLogin(c) ==
    /\ Free(c)
    /\ ~isAuthenticated
    /\ \A k \in Calls : ~(calls[k].kind = "login" /\ calls[k].result = "pending")
    /\ calls' = [Sweep EXCEPT ![c] = NewCall("login")]
    /\ WithinBound(calls')
    /\ UNCHANGED <<authVars, location, otherThanHttp>>

\* utils/apiTest.ts testAuthApis, run from the console whatever the session is:
\* authService.login with a wrong password
TestAuthApis(c) ==
    /\ Free(c)
    /\ \A k \in Calls : ~(calls[k].kind = "testLogin" /\ calls[k].result = "pending")
    /\ calls' = [Sweep EXCEPT ![c] = NewCall("testLogin")]
    /\ WithinBound(calls')
    /\ UNCHANGED <<authVars, location, otherThanHttp>>

\* header of the protected layout (rendered while authenticated)
ClickLogout(c) ==
    /\ Free(c)
    /\ isAuthenticated
    /\ calls' = [Sweep EXCEPT ![c] = NewCall("logout")]
    /\ WithinBound(calls')
    /\ UNCHANGED <<authVars, location, otherThanHttp>>

\* the answers the backend (or the network) can give to the transmission in flight
Responses(call) ==
    {NetworkFailure, Unauthorized} \cup ErrorResponses
    \cup (IF call.depth > 1 THEN RefreshBodies
          ELSE IF call.kind \in {"login", "testLogin"} THEN LoginBodies
          ELSE PlainBodies)

\* a response arrives; the interceptor and the caller's continuation run to
\* completion in the same task
Respond(c) ==
    /\ calls[c].result = "pending"
    /\ \E r \in Responses(calls[c]) :
       \E o \in {ResponseInterceptor(Store, calls[c], r)} :
       \E k \in {CallerSettled(calls[c].kind, o, r)} :
            /\ StoreBecomes(k.s)
            /\ calls' = [Sweep EXCEPT ![c] = [o.call EXCEPT !.msgs = @ \cup k.msgs]]
            /\ WithinBound(calls')
            /\ location' = IF k.location # Null THEN k.location
                           ELSE IF o.redirect THEN "/login" ELSE location
            /\ UNCHANGED otherThanHttp

InitHttp ==
    /\ isAuthenticated = FALSE
    /\ user = Null
    /\ token = Null
    /\ refreshToken = Null
    /\ persisted = partialize(StoreInitial)
    /\ location = "/login"
    /\ calls = [c \in Calls |-> IdleCall]

NextHttp ==
    \/ \E c \in Calls : IssueRequest(c)
    \/ \E c \in Calls : SubmitLogin(c)
    \/ \E c \in Calls : ClickLogout(c)
    \/ \E c \in Calls : Respond(c)

\* the client with the console's apiTester calling login as well
NextHttpTester ==
    \/ NextHttp
    \/ \E c \in Calls : TestAuthApis(c)

----------------------------------------------------------------------------
(* pages/Workflow/WorkflowInstances.tsx: WorkflowTemplates *)

TemplateIds == 1..MaxTemplates

TemplateTypes == {"supervision", "approval"}

\* fixture: the type of each template
TemplateType(id) == IF id % 2 = 1 THEN "supervision" ELSE "approval"

\* GET /workflow/templates: the page of the templates that match the filter
TemplatePage(ids, filter, page) ==
    LET match == {i \in ids : filter = Null \/ TemplateType(i) = filter}
    IN {i \in match :
          LET rank == Cardinality({j \in match : j < i})
          IN rank >= (page - 1) * TplPageSize /\ rank < page * TplPageSize}

TplPages == 1..((MaxTemplates + TplPageSize - 1) \div TplPageSize)

\* record.is_builtin of a row
is_builtin(id) == id \in tplBuiltin

\* the row's delete action is rendered
DeleteActionShown(id) == ~is_builtin(id)

\* a table whose every checkbox is enabled
CheckboxNeverDisabled(id) == FALSE

\* rowSelection.getCheckboxProps(record).disabled
CheckboxDisabled(id) == is_builtin(id)

\* deleteMutation.isLoading: the state of the latest mutation
DeleteLoading == tplDeleteLatest # 0

\* a change of the query key ['workflow-templates', page, size, filters] or an
\* invalidation starts a fetch; keepPreviousData keeps the rows until it ends
TplFetchDone ==
    /\ tplFetching
    /\ tplFetching' = FALSE
    /\ tplData' = TemplatePage(srvTemplates, tplSearchFilters, tplCurrentPage)
    /\ UNCHANGED <<srvTemplates, tplBuiltin, tplCurrentPage, tplSearchFilters,
                   selectedRowKeys, tplDeleting, tplDeleteLatest>>

\* the refresh button
TplRefetch ==
    /\ ~tplFetching
    /\ tplFetching' = TRUE
    /\ UNCHANGED <<srvTemplates, tplBuiltin, tplCurrentPage, tplSearchFilters,
                   selectedRowKeys, tplData, tplDeleting, tplDeleteLatest>>

\* pagination.onChange
TplPageChange(page) ==
    /\ page # tplCurrentPage
    /\ tplCurrentPage' = page
    /\ tplFetching' = TRUE
    /\ UNCHANGED <<srvTemplates, tplBuiltin, tplSearchFilters, selectedRowKeys,
                   tplData, tplDeleting, tplDeleteLatest>>

\* onChange of the type select: setSearchFilters only
TplFilterChange(filter) ==
    /\ filter # tplSearchFilters
    /\ tplSearchFilters' = filter
    /\ tplFetching' = TRUE
    /\ UNCHANGED <<srvTemplates, tplBuiltin, tplCurrentPage, selectedRowKeys,
                   tplData, tplDeleting, tplDeleteLatest>>

\* handleSearch(searchFilters): the same filters, page 1
TplHandleSearch ==
    /\ tplCurrentPage # 1
    /\ tplCurrentPage' = 1
    /\ tplFetching' = TRUE
    /\ UNCHANGED <<srvTemplates, tplBuiltin, tplSearchFilters, selectedRowKeys,
                   tplData, tplDeleting, tplDeleteLatest>>

\* handleReset: no filters, page 1
TplHandleReset ==
    /\ tplCurrentPage # 1 \/ tplSearchFilters # Null
    /\ tplSearchFilters' = Null
    /\ tplCurrentPage' = 1
    /\ tplFetching' = TRUE
    /\ UNCHANGED <<srvTemplates, tplBuiltin, selectedRowKeys,
                   tplData, tplDeleting, tplDeleteLatest>>

\* antd's table reports the keys that have a row in the current data
AvailableKeys(keys) == keys \cap tplData

\* a row's checkbox is toggled: rowSelection.onChange
TplToggleRow(id) ==
    /\ id \in tplData
    /\ ~CheckboxDisabled(id)
    /\ selectedRowKeys' = AvailableKeys(IF id \in selectedRowKeys
                                        THEN selectedRowKeys \ {id}
                                        ELSE selectedRowKeys \cup {id})
    /\ UNCHANGED <<srvTemplates, tplBuiltin, tplCurrentPage, tplSearchFilters,
                   tplData, tplFetching, tplDeleting, tplDeleteLatest>>

\* the header checkbox: every row whose checkbox is enabled, or none of them
TplToggleAll ==
    LET enabled == {i \in tplData : ~CheckboxDisabled(i)}
    IN /\ enabled # {}
       /\ selectedRowKeys' = AvailableKeys(IF enabled \subseteq selectedRowKeys
                                           THEN selectedRowKeys \ enabled
                                           ELSE selectedRowKeys \cup enabled)
       /\ UNCHANGED <<srvTemplates, tplBuiltin, tplCurrentPage, tplSearchFilters,
                      tplData, tplFetching, tplDeleting, tplDeleteLatest>>

\* the row's Popconfirm is confirmed: deleteMutation.mutate(record.id)
TplRowDelete(id) ==
    /\ id \in tplData
    /\ DeleteActionShown(id)
    /\ ~DeleteLoading
    /\ tplDeleting' = tplDeleting \cup {id}
    /\ tplDeleteLatest' = id
    /\ UNCHANGED <<srvTemplates, tplBuiltin, tplCurrentPage, tplSearchFilters,
                   selectedRowKeys, tplData, tplFetching>>

\* the batch Popconfirm is confirmed: one deleteMutation.mutate per selected key
TplBatchDelete ==
    /\ selectedRowKeys # {}
    /\ ~DeleteLoading
    /\ tplDeleting' = tplDeleting \cup selectedRowKeys
    /\ \E id \in selectedRowKeys : tplDeleteLatest' = id
    /\ UNCHANGED <<srvTemplates, tplBuiltin, tplCurrentPage, tplSearchFilters,
                   selectedRowKeys, tplData, tplFetching>>

\* backend, DELETE /workflow/templates/:id: a builtin or missing template is refused
SrvDeleteTemplate(id) == id \in srvTemplates /\ ~is_builtin(id)

\* a deleteTemplate call settles: onSuccess or onError of deleteMutation
TplDeleteDone(id, reachable) ==
    /\ id \in tplDeleting
    /\ tplDeleting' = tplDeleting \ {id}
    /\ tplDeleteLatest' = IF tplDeleteLatest = id THEN 0 ELSE tplDeleteLatest
    /\ IF reachable /\ SrvDeleteTemplate(id)
       THEN /\ srvTemplates' = srvTemplates \ {id}
            /\ tplFetching' = TRUE
            /\ selectedRowKeys' = {}
       ELSE UNCHANGED <<srvTemplates, tplFetching, selectedRowKeys>>
    /\ UNCHANGED <<tplBuiltin, tplCurrentPage, tplSearchFilters, tplData>>

InitTemplates(builtin) ==
    /\ srvTemplates = TemplateIds
    /\ tplBuiltin = builtin
    /\ tplCurrentPage = 1
    /\ tplSearchFilters = Null
    /\ selectedRowKeys = {}
    /\ tplData = {}
    /\ tplFetching = TRUE
    /\ tplDeleting = {}
    /\ tplDeleteLatest = 0

NextTemplates ==
    \/ TplFetchDone
    \/ TplRefetch
    \/ \E page \in TplPages : TplPageChange(page)
    \/ \E filter \in TemplateTypes \cup {Null} : TplFilterChange(filter)
    \/ TplHandleSearch
    \/ TplHandleReset
    \/ \E id \in TemplateIds : TplToggleRow(id)
    \/ TplToggleAll
    \/ \E id \in TemplateIds : TplRowDelete(id)
    \/ TplBatchDelete
    \/ \E id \in TemplateIds, reachable \in BOOLEAN : TplDeleteDone(id, reachable)

----------------------------------------------------------------------------
(* pages/Workflow/WorkflowInstances.tsx: WorkflowInstances, and the backend's *)
(* instance lifecycle                                                         *)

InstanceIds == 1..MaxInstances

WorkflowStatus == {"draft", "active", "suspended", "completed", "terminated"}

NoStart == [id |-> 0, before |-> "none", outcome |-> "none", msgs |-> {}, invalidated |-> FALSE]

MsgStartOk == "workflow started"
MsgStartFailed == "start failed"
ServerDetail == "detail"

\* backend, POST /workflow/instances: the new instance is a draft
SrvCreateInstance == "draft"

\* a backend that starts an instance whatever its status
SrvStartAcceptsAny(status) == TRUE

\* backend, POST /workflow/instances/:id/start: only a draft is started
SrvStartAccepts(status) == status = "draft"

\* backend: the status changes it makes on its own or for other clients
\* (suspend, resume, completion of the last task, termination)
SrvTransitions ==
    {<<"active", "suspended">>, <<"suspended", "active">>,
     <<"active", "completed">>, <<"active", "terminated">>}

\* the start action of a row is rendered
StartActionShown(status) == status = "draft"

\* startMutation.onSuccess
StartOnSuccess(id, before) ==
    [id |-> id, before |-> before, outcome |-> "success",
     msgs |-> {MsgStartOk}, invalidated |-> TRUE]

\* an onError that does what onSuccess does
StartOnErrorAsSuccess(id, before, detail) ==
    [id |-> id, before |-> before, outcome |-> "error",
     msgs |-> {MsgStartOk}, invalidated |-> TRUE]

\* startMutation.onError: error.response?.data?.detail || the fixed text
StartOnError(id, before, detail) ==
    [id |-> id, before |-> before, outcome |-> "error",
     msgs |-> {IF detail # Null THEN detail ELSE MsgStartFailed}, invalidated |-> FALSE]

\* createMutation settles with success: the backend holds a new draft
InstCreate(id) ==
    /\ srvInstances[id] = "none"
    /\ \A j \in 1..(id - 1) : srvInstances[j] # "none"
    /\ srvInstances' = [srvInstances EXCEPT ![id] = SrvCreateInstance]
    /\ instFetching' = TRUE
    /\ UNCHANGED <<instData, startPending, lastStart>>

\* the instance list query settles
InstFetchDone ==
    /\ instFetching
    /\ instFetching' = FALSE
    /\ instData' = srvInstances
    /\ UNCHANGED <<srvInstances, startPending, lastStart>>

\* the refresh button
InstRefetch ==
    /\ ~instFetching
    /\ instFetching' = TRUE
    /\ UNCHANGED <<srvInstances, instData, startPending, lastStart>>

\* the row's start button, which ignores clicks while startMutation.isLoading
InstClickStart(id) ==
    /\ StartActionShown(instData[id])
    /\ startPending = 0
    /\ startPending' = id
    /\ UNCHANGED <<srvInstances, instData, instFetching, lastStart>>

\* the startInstance call settles
InstStartDone(reachable, detail) ==
    /\ startPending # 0
    /\ LET id == startPending
           before == srvInstances[id]
       IN IF reachable /\ SrvStartAccepts(before)
          THEN /\ srvInstances' = [srvInstances EXCEPT ![id] = "active"]
               /\ lastStart' = StartOnSuccess(id, before)
          ELSE /\ srvInstances' = srvInstances
               /\ lastStart' = StartOnError(id, before, IF reachable THEN detail ELSE Null)
    /\ instFetching' = (instFetching \/ lastStart'.invalidated)
    /\ startPending' = 0
    /\ UNCHANGED instData

\* the backend moves an instance along its lifecycle
SrvInstanceStep(id, edge) ==
    /\ edge \in SrvTransitions
    /\ srvInstances[id] = edge[1]
    /\ srvInstances' = [srvInstances EXCEPT ![id] = edge[2]]
    /\ UNCHANGED <<instData, instFetching, startPending, lastStart>>

InitInstances ==
    /\ srvInstances = [i \in InstanceIds |-> "none"]
    /\ instData = [i \in InstanceIds |-> "none"]
    /\ instFetching = TRUE
    /\ startPending = 0
    /\ lastStart = NoStart

NextInstances ==
    \/ \E id \in InstanceIds : InstCreate(id)
    \/ InstFetchDone
    \/ InstRefetch
    \/ \E id \in InstanceIds : InstClickStart(id)
    \/ \E reachable \in BOOLEAN, detail \in {Null, ServerDetail} : InstStartDone(reachable, detail)
    \/ \E id \in InstanceIds, edge \in SrvTransitions : SrvInstanceStep(id, edge)

----------------------------------------------------------------------------
(* pages/Workflow/MyTasks.tsx *)

TaskIds == 1..MaxTasks

NodeStatus == {"pending", "active", "completed", "skipped", "failed"}

NoTask == [id |-> 0, status |-> "none"]

NoComplete == [id |-> 0, outcome |-> "none", msgs |-> {}]

MsgCompleteOk == "task completed"
MsgCompleteFailed == "complete task failed"

\* backend, GET /workflow/my-tasks: the nodes assigned to the user
SrvMyTasks == [t \in TaskIds |-> IF srvTasks[t].mine THEN srvTasks[t].status ELSE "none"]

\* backend, GET /workflow/user-stats: the user's nodes that are not finished
SrvUserTaskStats ==
    Cardinality({t \in TaskIds : srvTasks[t].mine /\ srvTasks[t].status \in {"pending", "active"}})

\* backend, POST /workflow/tasks/:id/complete: for an active node of its assignee
SrvCompleteAccepts(node) == node.mine /\ node.status = "active"

\* the row's and the detail dialog's complete action are rendered
CompleteActionShown(status) == status \in {"pending", "active"}

\* the page's state that the handlers of completeMutation work on
TaskUi ==
    [visible |-> completeModalVisible, selected |-> selectedTask, form |-> formValues,
     tasksInvalid |-> tasksFetching, statsInvalid |-> statsFetching, msgs |-> {}]

\* completeMutation.onSuccess
CompleteOnSuccess(ui) ==
    [visible |-> FALSE, selected |-> NoTask, form |-> Null,
     tasksInvalid |-> TRUE, statsInvalid |-> TRUE, msgs |-> {MsgCompleteOk}]

\* an onError that does what onSuccess does
CompleteOnErrorAsSuccess(ui, detail) == CompleteOnSuccess(ui)

\* completeMutation.onError: error.response?.data?.detail || the fixed text
CompleteOnError(ui, detail) ==
    [ui EXCEPT !.msgs = {IF detail # Null THEN detail ELSE MsgCompleteFailed}]

TaskUiBecomes(ui) ==
    /\ completeModalVisible' = ui.visible
    /\ selectedTask' = ui.selected
    /\ formValues' = ui.form
    /\ tasksFetching' = ui.tasksInvalid
    /\ statsFetching' = ui.statsInvalid

NoTaskModal == ~completeModalVisible /\ ~detailModalVisible

\* the 'my-tasks' query settles
TaskFetchDone ==
    /\ tasksFetching
    /\ tasksFetching' = FALSE
    /\ taskData' = SrvMyTasks
    /\ UNCHANGED <<srvTasks, taskStats, statsFetching, completeModalVisible, detailModalVisible,
                   selectedTask, formValues, completePending, lastComplete>>

\* the 'user-task-stats' query settles
TaskStatsFetchDone ==
    /\ statsFetching
    /\ statsFetching' = FALSE
    /\ taskStats' = SrvUserTaskStats
    /\ UNCHANGED <<srvTasks, taskData, tasksFetching, completeModalVisible, detailModalVisible,
                   selectedTask, formValues, completePending, lastComplete>>

\* refetchInterval of 'my-tasks' elapses (or the refresh button is pressed)
TaskPoll ==
    /\ ~tasksFetching
    /\ tasksFetching' = TRUE
    /\ UNCHANGED <<srvTasks, taskData, taskStats, statsFetching, completeModalVisible,
                   detailModalVisible, selectedTask, formValues, completePending, lastComplete>>

\* refetchInterval of 'user-task-stats' elapses
TaskStatsPoll ==
    /\ ~statsFetching
    /\ statsFetching' = TRUE
    /\ UNCHANGED <<srvTasks, taskData, taskStats, tasksFetching, completeModalVisible,
                   detailModalVisible, selectedTask, formValues, completePending, lastComplete>>

\* handleCompleteTask(record), from the row's complete button
TaskClickComplete(t) ==
    /\ NoTaskModal
    /\ CompleteActionShown(taskData[t])
    /\ selectedTask' = [id |-> t, status |-> taskData[t]]
    /\ completeModalVisible' = TRUE
    /\ UNCHANGED <<srvTasks, taskData, taskStats, tasksFetching, statsFetching,
                   detailModalVisible, formValues, completePending, lastComplete>>

\* handleViewDetail(record)
TaskViewDetail(t) ==
    /\ NoTaskModal
    /\ taskData[t] # "none"
    /\ selectedTask' = [id |-> t, status |-> taskData[t]]
    /\ detailModalVisible' = TRUE
    /\ UNCHANGED <<srvTasks, taskData, taskStats, tasksFetching, statsFetching,
                   completeModalVisible, formValues, completePending, lastComplete>>

\* the detail dialog's close button keeps selectedTask, its onCancel clears it
TaskDetailClose(clear) ==
    /\ detailModalVisible
    /\ detailModalVisible' = FALSE
    /\ selectedTask' = IF clear THEN NoTask ELSE selectedTask
    /\ UNCHANGED <<srvTasks, taskData, taskStats, tasksFetching, statsFetching,
                   completeModalVisible, formValues, completePending, lastComplete>>

\* the detail dialog's complete button: close it, handleCompleteTask(selectedTask)
TaskDetailComplete ==
    /\ detailModalVisible
    /\ selectedTask # NoTask
    /\ CompleteActionShown(selectedTask.status)
    /\ detailModalVisible' = FALSE
    /\ completeModalVisible' = TRUE
    /\ UNCHANGED <<srvTasks, taskData, taskStats, tasksFetching, statsFetching,
                   selectedTask, formValues, completePending, lastComplete>>

\* the user fills in result and comment
TaskFillForm ==
    /\ completeModalVisible
    /\ selectedTask # NoTask
    /\ formValues = Null
    /\ formValues' = "filled"
    /\ UNCHANGED <<srvTasks, taskData, taskStats, tasksFetching, statsFetching,
                   completeModalVisible, detailModalVisible, selectedTask, completePending,
                   lastComplete>>

\* onCancel of the completion dialog
TaskCompleteCancel ==
    /\ completeModalVisible
    /\ completeModalVisible' = FALSE
    /\ selectedTask' = NoTask
    /\ formValues' = Null
    /\ UNCHANGED <<srvTasks, taskData, taskStats, tasksFetching, statsFetching,
                   detailModalVisible, completePending, lastComplete>>

\* handleSubmitComplete, the dialog's onOk (not clickable while confirmLoading);
\* mutate resets what the mutation reports of its previous run
TaskSubmitComplete ==
    /\ completeModalVisible
    /\ completePending = 0
    /\ completePending' = IF selectedTask = NoTask THEN 0
                          ELSE IF formValues = Null THEN 0
                          ELSE selectedTask.id
    /\ lastComplete' = IF completePending' # 0 THEN NoComplete ELSE lastComplete
    /\ UNCHANGED <<srvTasks, taskData, taskStats, tasksFetching, statsFetching,
                   completeModalVisible, detailModalVisible, selectedTask, formValues>>

\* the completeTask call settles
TaskCompleteDone(reachable, detail) ==
    /\ completePending # 0
    /\ \E t \in {completePending} :
       \E ok \in {reachable /\ SrvCompleteAccepts(srvTasks[t])} :
       \E ui \in {IF ok THEN CompleteOnSuccess(TaskUi)
                  ELSE CompleteOnError(TaskUi, IF reachable THEN detail ELSE Null)} :
          /\ srvTasks' = IF ok THEN [srvTasks EXCEPT ![t].status = "completed"] ELSE srvTasks
          /\ TaskUiBecomes(ui)
          /\ lastComplete' = [id |-> t, outcome |-> IF ok THEN "success" ELSE "error",
                              msgs |-> ui.msgs]
    /\ completePending' = 0
    /\ UNCHANGED <<taskData, taskStats, detailModalVisible>>

\* backend: a node is reached, finished through another client, or taken
\* away from the user
SrvTaskStep(t) ==
    /\ \/ /\ srvTasks[t].status = "pending"
          /\ srvTasks' = [srvTasks EXCEPT ![t].status = "active"]
       \/ /\ srvTasks[t].status = "active"
          /\ srvTasks' = [srvTasks EXCEPT ![t].status = "completed"]
       \/ /\ srvTasks[t].status \in {"pending", "active"}
          /\ srvTasks[t].mine
          /\ srvTasks' = [srvTasks EXCEPT ![t].mine = FALSE]
    /\ UNCHANGED <<taskData, taskStats, tasksFetching, statsFetching, completeModalVisible,
                   detailModalVisible, selectedTask, formValues, completePending, lastComplete>>

InitTasks ==
    /\ srvTasks = [t \in TaskIds |-> [status |-> "pending", mine |-> TRUE]]
    /\ taskData = [t \in TaskIds |-> "none"]
    /\ taskStats = 0
    /\ tasksFetching = TRUE
    /\ statsFetching = TRUE
    /\ completeModalVisible = FALSE
    /\ detailModalVisible = FALSE
    /\ selectedTask = NoTask
    /\ formValues = Null
    /\ completePending = 0
    /\ lastComplete = NoComplete

NextTasks ==
    \/ TaskFetchDone
    \/ TaskStatsFetchDone
    \/ TaskPoll
    \/ TaskStatsPoll
    \/ \E t \in TaskIds : TaskClickComplete(t)
    \/ \E t \in TaskIds : TaskViewDetail(t)
    \/ \E clear \in BOOLEAN : TaskDetailClose(clear)
    \/ TaskDetailComplete
    \/ TaskFillForm
    \/ TaskCompleteCancel
    \/ TaskSubmitComplete
    \/ \E reachable \in BOOLEAN, detail \in {Null, ServerDetail} : TaskCompleteDone(reachable, detail)
    \/ \E t \in TaskIds : SrvTaskStep(t)

----------------------------------------------------------------------------
(* SupervisionDetail page (unnamed/part_007) and supervisionService           *)
(* (unnamed/part_001)                                                         *)

SupervisionStatus ==
    {"draft", "pending", "in_progress", "completed", "overdue", "suspended", "cancelled"}

\* the CheckableTags of the status dialog
StatusChoices == {"pending", "in_progress", "completed", "suspended", "cancelled"}

StatusReason == "status update"

NoRequest == [method |-> "none", path |-> "none", arg |-> Null, reason |-> Null]

\* supervisionService.changeSupervisionStatus(itemId, newStatus, reason)
changeSupervisionStatus(newStatus, reason) ==
    [method |-> "POST", path |-> "/supervision/:id/status", arg |-> newStatus, reason |-> reason]

\* supervisionService.createProgressReport(itemId, data)
createProgressReport(data) ==
    [method |-> "POST", path |-> "/supervision/:id/reports", arg |-> data, reason |-> Null]

\* supervisionService.updateProgressReport(reportId, data)
updateProgressReport(reportId, data) ==
    [method |-> "PUT", path |-> "/supervision/reports/:id", arg |-> data, reason |-> Null]

\* the report and update-status buttons are disabled
SupActionsDisabled(status) == status \in {"completed", "cancelled"}

NoSupModal == ~statusModalVisible /\ ~reportModalVisible

\* 'supervision-detail' settles
SupFetchDone ==
    /\ supFetching
    /\ supFetching' = FALSE
    /\ supData' = srvSupStatus
    /\ UNCHANGED <<srvSupStatus, srvReports, srvLogs, reportsFetching, logsFetching,
                   statusModalVisible, selectedStatus, statusPending, reportModalVisible,
                   reportForm, reportPending, supRequest>>

\* 'supervision-progress' (getProgressReports) settles
SupReportsFetchDone ==
    /\ reportsFetching
    /\ reportsFetching' = FALSE
    /\ UNCHANGED <<srvSupStatus, srvReports, srvLogs, supData, supFetching, logsFetching,
                   statusModalVisible, selectedStatus, statusPending, reportModalVisible,
                   reportForm, reportPending, supRequest>>

\* 'supervision-status-logs' (getStatusLogs) settles
SupLogsFetchDone ==
    /\ logsFetching
    /\ logsFetching' = FALSE
    /\ UNCHANGED <<srvSupStatus, srvReports, srvLogs, supData, supFetching, reportsFetching,
                   statusModalVisible, selectedStatus, statusPending, reportModalVisible,
                   reportForm, reportPending, supRequest>>

\* the update-status button
SupOpenStatusModal ==
    /\ supData # "none"
    /\ NoSupModal
    /\ ~SupActionsDisabled(supData)
    /\ statusModalVisible' = TRUE
    /\ UNCHANGED <<srvSupStatus, srvReports, srvLogs, supData, supFetching, reportsFetching,
                   logsFetching, selectedStatus, statusPending, reportModalVisible,
                   reportForm, reportPending, supRequest>>

\* a CheckableTag of the status dialog
SupSelectStatus(status) ==
    /\ statusModalVisible
    /\ status \in StatusChoices
    /\ selectedStatus' = status
    /\ UNCHANGED <<srvSupStatus, srvReports, srvLogs, supData, supFetching, reportsFetching,
                   logsFetching, statusModalVisible, statusPending, reportModalVisible,
                   reportForm, reportPending, supRequest>>

\* onCancel of the status dialog
SupStatusCancel ==
    /\ statusModalVisible
    /\ statusModalVisible' = FALSE
    /\ UNCHANGED <<srvSupStatus, srvReports, srvLogs, supData, supFetching, reportsFetching,
                   logsFetching, selectedStatus, statusPending, reportModalVisible,
                   reportForm, reportPending, supRequest>>

\* onOk of the status dialog: updateStatusMutation.mutate(selectedStatus)
SupStatusOk ==
    /\ statusModalVisible
    /\ statusPending = Null
    /\ statusPending' = selectedStatus
    /\ supRequest' = changeSupervisionStatus(selectedStatus, StatusReason)
    /\ UNCHANGED <<srvSupStatus, srvReports, srvLogs, supData, supFetching, reportsFetching,
                   logsFetching, statusModalVisible, selectedStatus, reportModalVisible,
                   reportForm, reportPending>>

\* the changeSupervisionStatus call settles; which transitions the backend
\* accepts is its own business
SupStatusDone(ok) ==
    /\ statusPending # Null
    /\ statusPending' = Null
    /\ IF ok /\ Len(srvLogs) < MaxLogs
       THEN /\ srvSupStatus' = statusPending
            /\ srvLogs' = Append(srvLogs, statusPending)
            /\ statusModalVisible' = FALSE
            /\ supFetching' = TRUE
            /\ logsFetching' = TRUE
       ELSE UNCHANGED <<srvSupStatus, srvLogs, statusModalVisible, supFetching, logsFetching>>
    /\ UNCHANGED <<srvReports, supData, reportsFetching, selectedStatus, reportModalVisible,
                   reportForm, reportPending, supRequest>>

\* the report buttons
SupOpenReportModal ==
    /\ supData # "none"
    /\ NoSupModal
    /\ ~SupActionsDisabled(supData)
    /\ reportModalVisible' = TRUE
    /\ UNCHANGED <<srvSupStatus, srvReports, srvLogs, supData, supFetching, reportsFetching,
                   logsFetching, statusModalVisible, selectedStatus, statusPending,
                   reportForm, reportPending, supRequest>>

\* the user fills in the report form
SupFillReport ==
    /\ reportModalVisible
    /\ reportForm = Null
    /\ reportForm' = "filled"
    /\ UNCHANGED <<srvSupStatus, srvReports, srvLogs, supData, supFetching, reportsFetching,
                   logsFetching, statusModalVisible, selectedStatus, statusPending,
                   reportModalVisible, reportPending, supRequest>>

\* onCancel of the report dialog
SupReportCancel ==
    /\ reportModalVisible
    /\ reportModalVisible' = FALSE
    /\ UNCHANGED <<srvSupStatus, srvReports, srvLogs, supData, supFetching, reportsFetching,
                   logsFetching, statusModalVisible, selectedStatus, statusPending,
                   reportForm, reportPending, supRequest>>

\* onOk of the report dialog: form.submit(), onFinish = submitReportMutation.mutate
SupReportOk ==
    /\ reportModalVisible
    /\ ~reportPending
    /\ reportForm # Null
    /\ reportPending' = TRUE
    /\ supRequest' = createProgressReport("v1")
    /\ UNCHANGED <<srvSupStatus, srvReports, srvLogs, supData, supFetching, reportsFetching,
                   logsFetching, statusModalVisible, selectedStatus, statusPending,
                   reportModalVisible, reportForm>>

\* the createProgressReport call settles
SupReportDone(ok) ==
    /\ reportPending
    /\ reportPending' = FALSE
    /\ IF ok /\ Len(srvReports) < MaxReports
       THEN /\ srvReports' = Append(srvReports, "v1")
            /\ reportModalVisible' = FALSE
            /\ reportForm' = Null
            /\ reportsFetching' = TRUE
            /\ supFetching' = TRUE
       ELSE UNCHANGED <<srvReports, reportModalVisible, reportForm, reportsFetching, supFetching>>
    /\ UNCHANGED <<srvSupStatus, srvLogs, supData, logsFetching, statusModalVisible,
                   selectedStatus, statusPending, supRequest>>

\* supervisionService.updateProgressReport is called for an existing report;
\* the backend applies the update or refuses it
SvcUpdateProgressReport(reportId, ok) ==
    /\ reportId \in 1..Len(srvReports)
    /\ supRequest' = updateProgressReport(reportId, "v2")
    /\ srvReports' = IF ok THEN [srvReports EXCEPT ![reportId] = "v2"] ELSE srvReports
    /\ UNCHANGED <<srvSupStatus, srvLogs, supData, supFetching, reportsFetching, logsFetching,
                   statusModalVisible, selectedStatus, statusPending, reportModalVisible,
                   reportForm, reportPending>>

InitSupervision(status) ==
    /\ srvSupStatus = status
    /\ srvReports = <<>>
    /\ srvLogs = <<>>
    /\ supData = "none"
    /\ supFetching = TRUE
    /\ reportsFetching = TRUE
    /\ logsFetching = TRUE
    /\ statusModalVisible = FALSE
    /\ selectedStatus = "pending"
    /\ statusPending = Null
    /\ reportModalVisible = FALSE
    /\ reportForm = Null
    /\ reportPending = FALSE
    /\ supRequest = NoRequest

\* the item, its status dialog and its status log
NextSupStatus ==
    \/ SupFetchDone
    \/ SupLogsFetchDone
    \/ SupOpenStatusModal
    \/ \E status \in StatusChoices : SupSelectStatus(status)
    \/ SupStatusCancel
    \/ SupStatusOk
    \/ \E ok \in BOOLEAN : SupStatusDone(ok)

\* the item's progress reports
NextSupReports ==
    \/ SupFetchDone
    \/ SupReportsFetchDone
    \/ SupOpenReportModal
    \/ SupFillReport
    \/ SupReportCancel
    \/ SupReportOk
    \/ \E ok \in BOOLEAN : SupReportDone(ok)
    \/ \E reportId \in 1..MaxReports, ok \in BOOLEAN : SvcUpdateProgressReport(reportId, ok)

NextSupervision == NextSupStatus \/ NextSupReports

----------------------------------------------------------------------------
(* List calls of the resource services: services/api.ts (userService),       *)
(* unnamed/part_001 (supervisionService), unnamed/part_002 (workflowService), *)
(* services/monitoringService.ts, services/departmentService.ts               *)

ListServices ==
    {"getSupervisionItems", "getUsers", "getTemplateList", "getInstanceList",
     "getMyTasks", "getAlerts", "getDepartmentList"}

\* an argument that is left out (undefined, falsy as 0 is), or a key that is
\* not in the query
Omitted == 0

Pages == {Omitted} \cup 1..MaxPage
Sizes == {Omitted} \cup 1..MaxSize

NoCall == [service |-> "none", page |-> Omitted, size |-> Omitted]

\* a key of the query holds the set of its value; a key that is absent, none
NoQuery == [skip |-> {}, limit |-> {}, page |-> {}, size |-> {}]

\* getSupervisionItems and getUsers: URLSearchParams with skip and limit
SkipLimitQuery(page, size) ==
    [skip |-> IF page # Omitted
              THEN {(page - 1) * (IF size # Omitted THEN size ELSE DefaultSize)}
              ELSE {},
     limit |-> IF size # Omitted THEN {size} ELSE {},
     page |-> {}, size |-> {}]

\* workflowService, monitoringService, departmentService: { params } as given
ParamsQuery(page, size) ==
    [skip |-> {}, limit |-> {},
     page |-> IF page # Omitted THEN {page} ELSE {},
     size |-> IF size # Omitted THEN {size} ELSE {}]

ListQueryOf(service, page, size) ==
    IF service \in {"getSupervisionItems", "getUsers"}
    THEN SkipLimitQuery(page, size)
    ELSE ParamsQuery(page, size)

\* backend: limit applied when the query carries none
SrvDefaultLimits == {2, DefaultSize}

\* backend, a list endpoint: the items after the first skip, at most limit of them
SrvList(total, query, defaultLimit) ==
    {i \in 1..total :
        /\ \A skip \in query.skip : i > skip
        /\ \A skip \in (IF query.skip = {} THEN {0} ELSE query.skip) :
           \A limit \in (IF query.limit = {} THEN {defaultLimit} ELSE query.limit) :
              i <= skip + limit}

\* a page or a console test calls a list operation
ListRequest(service, page, size) ==
    /\ listCall = NoCall
    /\ listCall' = [service |-> service, page |-> page, size |-> size]
    /\ listQuery' = ListQueryOf(service, page, size)
    /\ listItems' = {}
    /\ UNCHANGED listTotal

\* the backend answers and the caller has its data
ListRespond(defaultLimit) ==
    /\ listCall # NoCall
    /\ listItems' = SrvList(listTotal, listQuery, defaultLimit)
    /\ listCall' = NoCall
    /\ UNCHANGED <<listTotal, listQuery>>

InitList(total) ==
    /\ listTotal = total
    /\ listCall = NoCall
    /\ listQuery = NoQuery
    /\ listItems = {}

NextList ==
    \/ \E service \in ListServices, page \in Pages, size \in Sizes :
          ListRequest(service, page, size)
    \/ \E defaultLimit \in SrvDefaultLimits : ListRespond(defaultLimit)

----------------------------------------------------------------------------
(* pages/Monitoring/MonitoringDashboard.tsx and services/monitoringService.ts *)

AlertIds == 1..MaxAlerts

\* values of the level filter
AlertLevels == {"all", "critical"}

\* fixture: the level of each alert
AlertLevelOf(a) == IF a % 2 = 1 THEN "critical" ELSE "warning"

NoAlerts == [a \in AlertIds |-> "none"]

\* backend, GET /monitoring/alerts with the level filter
SrvAlerts(level) ==
    [a \in AlertIds |-> IF level = "all" \/ AlertLevelOf(a) = level THEN srvAlerts[a] ELSE "none"]

\* backend, GET /monitoring/stats: the number of open alerts
SrvMonitoringStats == Cardinality({a \in AlertIds : srvAlerts[a] = "open"})

\* alertsData?.data?.items || [] for the current key
Alerts == alertsCache[alertLevel]

\* the handle action of a row is rendered
HandleActionShown(status) == status = "open"

\* 'monitoring-stats' settles
MonStatsFetchDone ==
    /\ monStatsFetching
    /\ monStatsFetching' = FALSE
    /\ monStats' = SrvMonitoringStats
    /\ UNCHANGED <<srvAlerts, alertLevel, alertsCache, alertsFetching, monResolving, monConsole>>

\* 'monitoring-alerts' settles for one of its keys
MonAlertsFetchDone(level) ==
    /\ level \in alertsFetching
    /\ alertsFetching' = alertsFetching \ {level}
    /\ alertsCache' = [alertsCache EXCEPT ![level] = SrvAlerts(level)]
    /\ UNCHANGED <<srvAlerts, alertLevel, monStats, monStatsFetching, monResolving, monConsole>>

\* refetchInterval of 'monitoring-stats' elapses
MonStatsPoll ==
    /\ ~monStatsFetching
    /\ monStatsFetching' = TRUE
    /\ UNCHANGED <<srvAlerts, alertLevel, alertsCache, alertsFetching, monStats, monResolving,
                   monConsole>>

\* a timer that would re-issue the query of the first key whatever the filter is
MonAlertsPollFixedKey ==
    /\ "all" \notin alertsFetching
    /\ alertsFetching' = alertsFetching \cup {"all"}
    /\ UNCHANGED <<srvAlerts, alertLevel, alertsCache, monStats, monStatsFetching, monResolving,
                   monConsole>>

\* refetchInterval of 'monitoring-alerts' elapses: the current key is fetched
MonAlertsPoll ==
    /\ alertLevel \notin alertsFetching
    /\ alertsFetching' = alertsFetching \cup {alertLevel}
    /\ UNCHANGED <<srvAlerts, alertLevel, alertsCache, monStats, monStatsFetching, monResolving,
                   monConsole>>

\* the refresh button: refetchStats(); refetchAlerts()
MonRefresh ==
    /\ monStatsFetching' = TRUE
    /\ alertsFetching' = alertsFetching \cup {alertLevel}
    /\ UNCHANGED <<srvAlerts, alertLevel, alertsCache, monStats, monResolving, monConsole>>

\* setAlertLevel: the query key changes and the new key is fetched
MonSetAlertLevel(level) ==
    /\ level # alertLevel
    /\ alertLevel' = level
    /\ alertsFetching' = alertsFetching \cup {level}
    /\ UNCHANGED <<srvAlerts, alertsCache, monStats, monStatsFetching, monResolving, monConsole>>

\* the handle button of a row: console.log(record.id)
MonClickHandle(a) ==
    /\ HandleActionShown(Alerts[a])
    /\ monConsole' = a
    /\ UNCHANGED <<srvAlerts, alertLevel, alertsCache, alertsFetching, monStats,
                   monStatsFetching, monResolving>>

\* monitoringService.resolveAlert(alertId): PUT /monitoring/alerts/:id/resolve
SvcResolveAlert(a) ==
    /\ a \notin monResolving
    /\ srvAlerts[a] # "none"
    /\ monResolving' = monResolving \cup {a}
    /\ UNCHANGED <<srvAlerts, alertLevel, alertsCache, alertsFetching, monStats,
                   monStatsFetching, monConsole>>

\* the resolveAlert request settles
SvcResolveAlertDone(a, ok) ==
    /\ a \in monResolving
    /\ monResolving' = monResolving \ {a}
    /\ srvAlerts' = IF ok /\ srvAlerts[a] = "open"
                    THEN [srvAlerts EXCEPT ![a] = "resolved"] ELSE srvAlerts
    /\ UNCHANGED <<alertLevel, alertsCache, alertsFetching, monStats, monStatsFetching,
                   monConsole>>

\* backend: an alert is raised, or resolved through another client
SrvAlertStep(a) ==
    /\ \/ srvAlerts[a] = "none" /\ srvAlerts' = [srvAlerts EXCEPT ![a] = "open"]
       \/ srvAlerts[a] = "open" /\ srvAlerts' = [srvAlerts EXCEPT ![a] = "resolved"]
    /\ UNCHANGED <<alertLevel, alertsCache, alertsFetching, monStats, monStatsFetching,
                   monResolving, monConsole>>

InitMonitoring ==
    /\ srvAlerts = NoAlerts
    /\ alertLevel = "all"
    /\ alertsCache = [l \in AlertLevels |-> NoAlerts]
    /\ alertsFetching = {"all"}
    /\ monStats = 0
    /\ monStatsFetching = TRUE
    /\ monResolving = {}
    /\ monConsole = 0

NextMonitoring ==
    \/ MonStatsFetchDone
    \/ \E level \in AlertLevels : MonAlertsFetchDone(level)
    \/ MonStatsPoll
    \/ MonAlertsPoll
    \/ MonRefresh
    \/ \E level \in AlertLevels : MonSetAlertLevel(level)
    \/ \E a \in AlertIds : MonClickHandle(a)
    \/ \E a \in AlertIds : SvcResolveAlert(a)
    \/ \E a \in AlertIds, ok \in BOOLEAN : SvcResolveAlertDone(a, ok)
    \/ \E a \in AlertIds : SrvAlertStep(a)

----------------------------------------------------------------------------
(* pages/Workflow/WorkflowInstances.tsx, WorkflowTemplates: create / edit dialog *)

EditableIds == 1..MaxEditable

FormNames == 1..MaxNames

\* a definition with nodes and transitions, as the designer stores it
Graph == "graph"

\* definition: { nodes: [], transitions: [] }
EmptyDefinition == "empty"

NoSave == [target |-> 0, name |-> 0, definition |-> {}]

\* handleSubmit: templateData = { ...values, definition: { nodes: [], transitions: [] } }
TemplateData(values) == [name |-> values, definition |-> {EmptyDefinition}]

\* backend, PUT /workflow/templates/:id: every field of the body replaces the stored one
SrvUpdateTemplate(stored, data) ==
    IF data.definition = {} THEN stored
    ELSE CHOOSE d \in data.definition : TRUE

\* backend, POST /workflow/templates: the id given to a new template, 0 if none is free
SrvNewTemplateId ==
    IF \E id \in EditableIds : srvTplName[id] = 0
    THEN CHOOSE id \in EditableIds :
             srvTplName[id] = 0 /\ \A other \in EditableIds : srvTplName[other] = 0 => id <= other
    ELSE 0

\* the list query settles
EdFetchDone ==
    /\ edFetching
    /\ edFetching' = FALSE
    /\ edRows' = srvTplName
    /\ UNCHANGED <<srvTplName, srvTplDefinition, modalVisible, editingTemplate, formName,
                   savePending>>

\* handleEdit(record)
EdHandleEdit(id) ==
    /\ ~modalVisible
    /\ edRows[id] # 0
    /\ editingTemplate' = id
    /\ formName' = edRows[id]
    /\ modalVisible' = TRUE
    /\ UNCHANGED <<srvTplName, srvTplDefinition, edRows, edFetching, savePending>>

\* handleCreate
EdHandleCreate ==
    /\ ~modalVisible
    /\ editingTemplate' = 0
    /\ formName' = 0
    /\ modalVisible' = TRUE
    /\ UNCHANGED <<srvTplName, srvTplDefinition, edRows, edFetching, savePending>>

\* the user types a name into the form
EdFillName(name) ==
    /\ modalVisible
    /\ formName # name
    /\ formName' = name
    /\ UNCHANGED <<srvTplName, srvTplDefinition, edRows, edFetching, modalVisible,
                   editingTemplate, savePending>>

\* Modal onCancel
EdCancel ==
    /\ modalVisible
    /\ modalVisible' = FALSE
    /\ editingTemplate' = 0
    /\ formName' = 0
    /\ UNCHANGED <<srvTplName, srvTplDefinition, edRows, edFetching, savePending>>

\* handleSubmit, with saveMutation's mutation function
EdHandleSubmit ==
    /\ modalVisible
    /\ savePending = NoSave
    /\ formName # 0
    /\ savePending' = [target |-> editingTemplate] @@ TemplateData(formName)
    /\ UNCHANGED <<srvTplName, srvTplDefinition, edRows, edFetching, modalVisible,
                   editingTemplate, formName>>

\* the save request settles: the backend's update or create, then onSuccess / onError
EdSaveDone(ok) ==
    /\ savePending # NoSave
    /\ savePending' = NoSave
    /\ \E id \in {IF savePending.target # 0 THEN savePending.target ELSE SrvNewTemplateId} :
         \E accepted \in {ok /\ id # 0 /\ (savePending.target # 0 => srvTplName[id] # 0)} :
            IF accepted
            THEN /\ srvTplName' = [srvTplName EXCEPT ![id] = savePending.name]
                 /\ srvTplDefinition' =
                        [srvTplDefinition EXCEPT ![id] = SrvUpdateTemplate(@, savePending)]
                 /\ modalVisible' = FALSE
                 /\ editingTemplate' = 0
                 /\ formName' = 0
                 /\ edFetching' = TRUE
                 /\ UNCHANGED edRows
            ELSE UNCHANGED <<srvTplName, srvTplDefinition, edRows, edFetching, modalVisible,
                             editingTemplate, formName>>

\* backend: a template is removed by another client
SrvTemplateRemoved(id) ==
    /\ srvTplName[id] # 0
    /\ srvTplName' = [srvTplName EXCEPT ![id] = 0]
    /\ srvTplDefinition' = [srvTplDefinition EXCEPT ![id] = "none"]
    /\ UNCHANGED <<edRows, edFetching, modalVisible, editingTemplate, formName, savePending>>

InitEdit ==
    /\ srvTplName = [id \in EditableIds |-> IF id = 1 THEN 1 ELSE 0]
    /\ srvTplDefinition = [id \in EditableIds |-> IF id = 1 THEN Graph ELSE "none"]
    /\ edRows = [id \in EditableIds |-> 0]
    /\ edFetching = TRUE
    /\ modalVisible = FALSE
    /\ editingTemplate = 0
    /\ formName = 0
    /\ savePending = NoSave

NextEdit ==
    \/ EdFetchDone
    \/ \E id \in EditableIds : EdHandleEdit(id)
    \/ EdHandleCreate
    \/ \E name \in FormNames : EdFillName(name)
    \/ EdCancel
    \/ EdHandleSubmit
    \/ \E ok \in BOOLEAN : EdSaveDone(ok)
    \/ \E id \in EditableIds : SrvTemplateRemoved(id)

----------------------------------------------------------------------------
(* SupervisionForm page, edit mode *)

\* Option values of the form's status field
FormStatusOptions == {"draft", "pending", "in_progress", "completed", "suspended", "cancelled"}

\* handleSaveDraft's data that would keep the status of the form
SaveDraftDataKeepsStatus(values) == values

\* handleSaveDraft: submitData = { ...values, status: 'draft' }
SaveDraftData(values) == [values EXCEPT !.status = "draft"]

\* handleSubmit: submitData = { ...values }
SubmitData(values) == values

FormValues == [status |-> formStatus]

\* navigate to /supervision/edit/:id from the list or the detail page
FormOpenEdit ==
    /\ ~formMounted
    /\ formMounted' = TRUE
    /\ formDetailLoaded' = FALSE
    /\ formStatus' = "none"
    /\ formComplete' = FALSE
    /\ UNCHANGED <<srvItemStatus, updatesInFlight>>

\* 'supervision-detail' settles: onSuccess fills the form from the item
FormDetailLoaded ==
    /\ formMounted
    /\ ~formDetailLoaded
    /\ formDetailLoaded' = TRUE
    /\ formStatus' = srvItemStatus
    /\ formComplete' = TRUE
    /\ UNCHANGED <<srvItemStatus, formMounted, updatesInFlight>>

\* the user chooses a status in the form
FormSelectStatus(status) ==
    /\ formMounted
    /\ formDetailLoaded
    /\ formStatus # status
    /\ formStatus' = status
    /\ UNCHANGED <<srvItemStatus, formMounted, formDetailLoaded, formComplete, updatesInFlight>>

\* the user clears, or fills in again, a required field
FormEditRequired ==
    /\ formMounted
    /\ formDetailLoaded
    /\ formComplete' = ~formComplete
    /\ UNCHANGED <<srvItemStatus, formMounted, formDetailLoaded, formStatus, updatesInFlight>>

\* the save button: form.submit(), then handleSubmit if the form validates
FormHandleSubmit ==
    /\ formMounted
    /\ formDetailLoaded
    /\ Len(updatesInFlight) < MaxUpdates
    /\ updatesInFlight' = IF formComplete
                          THEN Append(updatesInFlight, SubmitData(FormValues).status)
                          ELSE updatesInFlight
    /\ UNCHANGED <<srvItemStatus, formMounted, formDetailLoaded, formStatus, formComplete>>

\* the save draft button: handleSaveDraft
FormSaveDraft ==
    /\ formMounted
    /\ formDetailLoaded
    /\ Len(updatesInFlight) < MaxUpdates
    /\ updatesInFlight' = IF formComplete
                          THEN Append(updatesInFlight, SaveDraftData(FormValues).status)
                          ELSE updatesInFlight
    /\ UNCHANGED <<srvItemStatus, formMounted, formDetailLoaded, formStatus, formComplete>>

\* the oldest update settles: the backend stores the body or refuses it;
\* updateMutation's onSuccess navigates to the list
FormUpdateDone(accepted) ==
    /\ updatesInFlight # <<>>
    /\ updatesInFlight' = Tail(updatesInFlight)
    /\ IF accepted
       THEN /\ srvItemStatus' = Head(updatesInFlight)
            /\ formMounted' = FALSE
            /\ formDetailLoaded' = FALSE
            /\ formStatus' = "none"
            /\ formComplete' = FALSE
       ELSE UNCHANGED <<srvItemStatus, formMounted, formDetailLoaded, formStatus, formComplete>>

\* the back button: navigate('/supervision/list')
FormBack ==
    /\ formMounted
    /\ formMounted' = FALSE
    /\ formDetailLoaded' = FALSE
    /\ formStatus' = "none"
    /\ formComplete' = FALSE
    /\ UNCHANGED <<srvItemStatus, updatesInFlight>>

InitForm(status) ==
    /\ srvItemStatus = status
    /\ formMounted = FALSE
    /\ formDetailLoaded = FALSE
    /\ formStatus = "none"
    /\ formComplete = FALSE
    /\ updatesInFlight = <<>>

NextForm ==
    \/ FormOpenEdit
    \/ FormDetailLoaded
    \/ \E status \in FormStatusOptions : FormSelectStatus(status)
    \/ FormEditRequired
    \/ FormHandleSubmit
    \/ FormSaveDraft
    \/ \E accepted \in BOOLEAN : FormUpdateDone(accepted)
    \/ FormBack

----------------------------------------------------------------------------
(* utils/apiTest.ts: ApiTester *)

\* the endpoints in the order runAllTests reaches them, by the module of each
TestedModules ==
    <<"auth", "users", "supervision", "supervision", "workflow", "workflow", "workflow",
      "monitoring", "monitoring", "analytics">>

LoginEndpoint == 1

NoOutcome == [result |-> "none", status |-> 0, redirect |-> FALSE]

\* How a call through the shared client can settle for its caller.  A
\* rejection with status 401 leaves the response interceptor only after
\* logout() and the assignment of window.location.href (Handle401, Unwind).
TestOutcomes ==
    {[result |-> "resolved", status |-> 200, redirect |-> FALSE]}
    \cup {[result |-> "rejected", status |-> st, redirect |-> FALSE] : st \in {0, 404, 500}}
    \cup {[result |-> "rejected", status |-> 401, redirect |-> TRUE]}

\* testEndpoint around the test function: testAuthApis resolves on a 401 or 404
TestStatus(endpoint, outcome) ==
    IF outcome.result = "resolved" THEN "success"
    ELSE IF endpoint = LoginEndpoint /\ outcome.status \in {401, 404} THEN "success"
    ELSE "error"

\* apiTester.runAllTests() from the console, no run being in progress
RunAllTests ==
    /\ testPos = 0
    /\ testResults' = <<>>
    /\ testPos' = 1
    /\ UNCHANGED <<testOutcome, testNavigating>>

\* the awaited call settles: addResult, then the next endpoint or printSummary
TestEndpointSettled(outcome) ==
    /\ testPos \in 1..Len(TestedModules)
    /\ testOutcome' = outcome
    /\ testResults' = Append(testResults, [endpoint |-> testPos,
                                           status |-> TestStatus(testPos, outcome)])
    /\ testPos' = IF testPos = Len(TestedModules) THEN 0 ELSE testPos + 1
    /\ testNavigating' = (testNavigating \/ outcome.redirect)

\* the navigation to /login commits: the document, its scripts and the
\* apiTester instance are replaced by those of the new document
PageUnload ==
    /\ testNavigating
    /\ testNavigating' = FALSE
    /\ testResults' = <<>>
    /\ testPos' = 0
    /\ testOutcome' = NoOutcome

InitTester ==
    /\ testResults = <<>>
    /\ testPos = 0
    /\ testOutcome = NoOutcome
    /\ testNavigating = FALSE

NextTester ==
    \/ RunAllTests
    \/ \E outcome \in TestOutcomes : TestEndpointSettled(outcome)
    \/ PageUnload

----------------------------------------------------------------------------
(* SupervisionList page: batch deletion *)

ItemIds == 1..MaxItems

MsgBatchOk == "batch delete succeeded"
MsgBatchFailed == "batch delete failed"

\* a combinator that waits for every request and never rejects
PromiseAllSettled(ok, remaining) ==
    IF remaining = {} THEN "fulfilled" ELSE "pending"

\* Promise.all over the delete requests, after one of them settled: rejected
\* by the first rejection, fulfilled once every request is fulfilled
PromiseAll(ok, remaining) ==
    IF ~ok THEN "rejected"
    ELSE IF remaining = {} THEN "fulfilled"
    ELSE "pending"

\* the list query settles
BlFetchDone ==
    /\ blFetching
    /\ blFetching' = FALSE
    /\ blData' = srvItems
    /\ UNCHANGED <<srvItems, blSelected, batchIds, batchLoading, deletesInFlight,
                   deletesDetached, blOutcome, blMsg>>

\* the refresh button: refetch()
BlRefetch ==
    /\ ~blFetching
    /\ blFetching' = TRUE
    /\ UNCHANGED <<srvItems, blData, blSelected, batchIds, batchLoading, deletesInFlight,
                   deletesDetached, blOutcome, blMsg>>

\* rowSelection.onChange: a row's checkbox is toggled
BlToggleRow(id) ==
    /\ id \in blData
    /\ blSelected' = IF id \in blSelected THEN blSelected \ {id} ELSE blSelected \cup {id}
    /\ UNCHANGED <<srvItems, blData, blFetching, batchIds, batchLoading, deletesInFlight,
                   deletesDetached, blOutcome, blMsg>>

\* the batch delete button's Popconfirm onConfirm: batchDeleteMutation.mutate(ids)
BlBatchDelete ==
    /\ blSelected # {}
    /\ ~batchLoading
    /\ batchIds' = blSelected
    /\ deletesInFlight' = blSelected
    /\ batchLoading' = TRUE
    /\ blMsg' = "none"
    /\ UNCHANGED <<srvItems, blData, blFetching, blSelected, deletesDetached, blOutcome>>

\* a delete request of the mutation in progress settles; the backend removes an
\* item it holds unless the request fails; then Promise.all, onSuccess, onError
BlDeleteSettled(id, reachable) ==
    /\ id \in deletesInFlight
    /\ \E ok \in {reachable /\ id \in srvItems} :
       \E remaining \in {deletesInFlight \ {id}} :
       \E all \in {PromiseAll(ok, remaining)} :
          /\ srvItems' = IF ok THEN srvItems \ {id} ELSE srvItems
          /\ blOutcome' = IF ok THEN "fulfilled" ELSE "rejected"
          /\ CASE all = "fulfilled" ->
                    /\ blMsg' = MsgBatchOk
                    /\ blFetching' = TRUE
                    /\ blSelected' = {}
                    /\ batchLoading' = FALSE
                    /\ deletesInFlight' = {}
                    /\ UNCHANGED deletesDetached
               [] all = "rejected" ->
                    /\ blMsg' = MsgBatchFailed
                    /\ batchLoading' = FALSE
                    /\ deletesInFlight' = {}
                    /\ deletesDetached' = deletesDetached \cup remaining
                    /\ UNCHANGED <<blFetching, blSelected>>
               [] OTHER ->
                    /\ deletesInFlight' = remaining
                    /\ UNCHANGED <<blMsg, blFetching, blSelected, batchLoading, deletesDetached>>
    /\ UNCHANGED <<blData, batchIds>>

\* a delete request settles after its mutation was rejected: no callback runs
BlDetachedSettled(id, reachable) ==
    /\ id \in deletesDetached
    /\ deletesDetached' = deletesDetached \ {id}
    /\ srvItems' = IF reachable THEN srvItems \ {id} ELSE srvItems
    /\ UNCHANGED <<blData, blFetching, blSelected, batchIds, batchLoading, deletesInFlight,
                   blOutcome, blMsg>>

InitBatch ==
    /\ srvItems = ItemIds
    /\ blData = {}
    /\ blFetching = TRUE
    /\ blSelected = {}
    /\ batchIds = {}
    /\ batchLoading = FALSE
    /\ deletesInFlight = {}
    /\ deletesDetached = {}
    /\ blOutcome = "none"
    /\ blMsg = "none"

NextBatch ==
    \/ BlFetchDone
    \/ BlRefetch
    \/ \E id \in ItemIds : BlToggleRow(id)
    \/ BlBatchDelete
    \/ \E id \in ItemIds, reachable \in BOOLEAN : BlDeleteSettled(id, reachable)
    \/ \E id \in ItemIds, reachable \in BOOLEAN : BlDetachedSettled(id, reachable)

----------------------------------------------------------------------------
(* Specifications *)

InitTplFixed == InitTemplates({1})

InitSupFixed == InitSupervision("pending")

InitListFixed == InitList(MaxTotal)

InitFormFixed == InitForm("pending")

\* the pages under the router that poll, and any of the others
PollingPages == {"workflow/my-tasks", "monitoring/dashboard"}

OtherPage == "other"

InitPages ==
    /\ InitHttp
    /\ InitTplFixed
    /\ InitInstances
    /\ InitTasks
    /\ InitSupFixed
    /\ InitListFixed
    /\ InitMonitoring
    /\ InitEdit
    /\ InitStoreCalls
    /\ InitBatch
    /\ InitTester
    /\ InitFormFixed

Init == InitPages /\ mounted = OtherPage

\* the HTTP client, the session and its callers
SpecHttp == Init /\ [][NextHttp]_vars

\* the HTTP client with testAuthApis run from the console
SpecHttpTester == Init /\ [][NextHttpTester]_vars

\* the template page, for every choice of the builtin templates
InitTpl ==
    /\ InitHttp
    /\ InitInstances
    /\ InitTasks
    /\ InitSupFixed
    /\ InitListFixed
    /\ InitMonitoring
    /\ InitEdit
    /\ InitStoreCalls
    /\ InitBatch
    /\ InitTester
    /\ InitFormFixed
    /\ mounted = OtherPage
    /\ \E builtin \in SUBSET TemplateIds : InitTemplates(builtin)

SpecTpl == InitTpl /\ [][NextTemplates /\ UNCHANGED otherThanTpl]_vars

\* the instance page and the backend's instance lifecycle
SpecWf == Init /\ [][NextInstances /\ UNCHANGED otherThanWf]_vars

\* the task page and the backend's nodes
InitMyTasks == InitPages /\ mounted = "workflow/my-tasks"

SpecTasks == InitMyTasks /\ [][NextTasks /\ UNCHANGED otherThanTasks]_vars

\* the supervision detail page, for every status the item can have
InitSup ==
    /\ InitHttp
    /\ InitTplFixed
    /\ InitInstances
    /\ InitTasks
    /\ InitListFixed
    /\ InitMonitoring
    /\ InitEdit
    /\ InitStoreCalls
    /\ InitBatch
    /\ InitTester
    /\ InitFormFixed
    /\ mounted = OtherPage
    /\ \E status \in SupervisionStatus : InitSupervision(status)

SpecSupStatus == InitSup /\ [][NextSupStatus /\ UNCHANGED otherThanSup]_vars

\* the progress reports of an item, through the page and through the service
SpecSupReports == InitSup /\ [][NextSupReports /\ UNCHANGED otherThanSup]_vars

\* list calls, for every number of items on the backend
InitListAny ==
    /\ InitHttp
    /\ InitTplFixed
    /\ InitInstances
    /\ InitTasks
    /\ InitSupFixed
    /\ InitMonitoring
    /\ InitEdit
    /\ InitStoreCalls
    /\ InitBatch
    /\ InitTester
    /\ InitFormFixed
    /\ mounted = OtherPage
    /\ \E total \in 0..MaxTotal : InitList(total)

SpecList == InitListAny /\ [][NextList /\ UNCHANGED otherThanList]_vars

\* the monitoring dashboard and the backend's alerts
InitDashboard == InitPages /\ mounted = "monitoring/dashboard"

SpecMon == InitDashboard /\ [][NextMonitoring /\ UNCHANGED otherThanMon]_vars

\* the create / edit dialog of the template page
SpecEdit == Init /\ [][NextEdit /\ UNCHANGED otherThanEdit]_vars

\* the two polling pages: one of them is mounted and stays mounted; its
\* refetchInterval timers keep firing and its requests settle
InitPolling == InitPages /\ mounted \in PollingPages

MyTasksStep(A) == mounted = "workflow/my-tasks" /\ A /\ UNCHANGED otherThanTasks

DashboardStep(A) == mounted = "monitoring/dashboard" /\ A /\ UNCHANGED otherThanMon

NextPolling == MyTasksStep(NextTasks) \/ DashboardStep(NextMonitoring)

PollingFairness ==
    /\ WF_vars(MyTasksStep(TaskPoll))
    /\ WF_vars(MyTasksStep(TaskStatsPoll))
    /\ WF_vars(MyTasksStep(TaskFetchDone))
    /\ WF_vars(MyTasksStep(TaskStatsFetchDone))
    /\ WF_vars(DashboardStep(MonStatsPoll))
    /\ WF_vars(DashboardStep(MonAlertsPoll))
    /\ WF_vars(DashboardStep(MonStatsFetchDone))
    /\ \A level \in AlertLevels : WF_vars(DashboardStep(MonAlertsFetchDone(level)))

SpecPolling == InitPolling /\ [][NextPolling]_vars /\ PollingFairness

\* the edit form of a supervision item, for every status the item can have
InitFormAny ==
    /\ InitHttp
    /\ InitTplFixed
    /\ InitInstances
    /\ InitTasks
    /\ InitSupFixed
    /\ InitListFixed
    /\ InitMonitoring
    /\ InitEdit
    /\ InitStoreCalls
    /\ InitBatch
    /\ InitTester
    /\ mounted = OtherPage
    /\ \E status \in SupervisionStatus : InitForm(status)

SpecForm == InitFormAny /\ [][NextForm /\ UNCHANGED otherThanForm]_vars

\* runs of the apiTester in a browser window
SpecTester == Init /\ [][NextTester /\ UNCHANGED otherThanTester]_vars

\* batch deletion on the supervision list
SpecBatch == Init /\ [][NextBatch /\ UNCHANGED otherThanBatch]_vars

\* the store's actions, called in any order
SpecStore == Init /\ [][NextStore]_vars

Next == NextHttpTester \/ (NextTemplates /\ UNCHANGED otherThanTpl)
            \/ (NextInstances /\ UNCHANGED otherThanWf)
            \/ (NextTasks /\ UNCHANGED otherThanTasks)
            \/ (NextSupervision /\ UNCHANGED otherThanSup)
            \/ (NextList /\ UNCHANGED otherThanList)
            \/ (NextMonitoring /\ UNCHANGED otherThanMon)
            \/ (NextEdit /\ UNCHANGED otherThanEdit)
            \/ (NextForm /\ UNCHANGED otherThanForm)
            \/ (NextTester /\ UNCHANGED otherThanTester)
            \/ (NextBatch /\ UNCHANGED otherThanBatch)
            \/ NextStore

Spec == Init /\ [][Next]_vars

----------------------------------------------------------------------------
(* Properties of the HTTP client and the session *)

\* call c received a response in this step
Answered(c) == calls[c].result = "pending" /\ calls'[c] # calls[c]

IsOk(r) == r.st = "response" /\ r.status = 200
Is401(r) == r.st = "response" /\ r.status = 401

SessionCleared ==
    /\ isAuthenticated = FALSE
    /\ token = Null
    /\ refreshToken = Null
    /\ user = Null

\* C1: a request answered 401 while a refresh token is stored causes at most
\* one refresh call on its behalf and is transmitted at most twice, also when
\* the re-sent request is answered 401 again.
C1_NoRetryLoop ==
    \A c \in Calls : calls[c].sent <= 2 /\ calls[c].refreshes <= 1

\* C2: when the refresh call made after a 401 fails for any reason (the
\* refresh endpoint answering 401 included), in that same step the session is
\* cleared, the route is /login, the call is rejected, and no further refresh
\* call or retry is transmitted.
C2_RefreshFailureEndsCall ==
    [][\A c \in Calls :
          (Answered(c) /\ calls[c].depth > 1 /\ ~IsOk(calls'[c].resp))
          => /\ SessionCleared'
             /\ location' = "/login"
             /\ calls'[c].result = "rejected"
             /\ calls'[c].total = calls[c].total]_vars

\* C3: when the refresh call succeeds with access token T, the store's token
\* becomes T while refreshToken, user and isAuthenticated keep their values,
\* the request that had received the 401 is re-sent carrying Bearer T, and
\* when the answer to a re-sent request settles the call, the caller receives
\* that answer: a resolution for 200, a rejection with its status otherwise.
C3_RefreshSuccessResends ==
    [][\A c \in Calls :
          /\ (Answered(c) /\ calls[c].depth > 1 /\ IsOk(calls'[c].resp))
             => /\ token' = calls'[c].resp.data.access_token
                /\ refreshToken' = refreshToken
                /\ user' = user
                /\ isAuthenticated' = isAuthenticated
                /\ calls'[c].result = "pending"
                /\ calls'[c].depth = calls[c].depth - 1
                /\ calls'[c].total = calls[c].total + 1
                /\ calls'[c].auth = calls'[c].resp.data.access_token
          /\ (Answered(c) /\ calls[c].depth = 1 /\ calls[c].sent > 1
                /\ calls'[c].result # "pending")
             => IF IsOk(calls'[c].resp)
                THEN calls'[c].result = "resolved"
                ELSE /\ calls'[c].result = "rejected"
                     /\ calls'[c].errStatus = calls'[c].resp.status]_vars

C3_Witness ==
    \E c \in Calls :
        /\ calls[c].result = "resolved"
        /\ calls[c].kind = "get"
        /\ calls[c].sent = 2
        /\ calls[c].refreshes = 1
        /\ calls[c].auth = "a2"
        /\ token = "a2"
        /\ refreshToken = "r1"

\* C4: a 401 received while no refresh token is stored causes no refresh
\* call and no re-send; the session is cleared, the route is /login and the
\* call is rejected.
C4_NoRefreshTokenLogsOut ==
    [][\A c \in Calls :
          (Answered(c) /\ Is401(calls'[c].resp) /\ refreshToken = Null)
          => /\ calls'[c].total = calls[c].total
             /\ calls'[c].refreshes = calls[c].refreshes
             /\ SessionCleared'
             /\ location' = "/login"
             /\ calls'[c].result = "rejected"]_vars

C4_Witness ==
    \E c \in Calls :
        /\ calls[c].result = "rejected"
        /\ Is401(calls[c].resp)
        /\ calls[c].depth = 1
        /\ calls[c].refreshes = 0
        /\ MsgPleaseLogin \in calls[c].msgs
        /\ SessionCleared

\* C5: a login answered with success = true and data stores exactly the
\* returned access token, refresh token and user with isAuthenticated = true;
\* a login that is rejected, or answered with success = false or without
\* data, leaves the store unauthenticated with no token, refresh token or
\* user, and an error message is shown.
C5_LoginStoresSession ==
    [][\A c \in Calls :
          (Answered(c) /\ calls[c].kind = "login" /\ calls'[c].result # "pending")
          => LET r == calls'[c].resp
             IN IF calls'[c].result = "resolved" /\ r.success /\ r.hasData
                THEN /\ isAuthenticated' = TRUE
                     /\ token' = r.data.access_token
                     /\ refreshToken' = r.data.refresh_token
                     /\ user' = r.data.user
                ELSE /\ SessionCleared'
                     /\ calls'[c].msgs \cap {MsgLoginFailed, MsgLoginRetry, ServerMessage} # {}]_vars

\* the text the interceptor is to display for a failure other than 401
C6_Text(r) ==
    IF r.st = "noresponse" THEN "network connection failed"
    ELSE IF r.message # Null THEN r.message
    ELSE IF r.status = 403 THEN "permission denied"
    ELSE IF r.status = 404 THEN "resource not found"
    ELSE IF r.status = 422 THEN "request validation failed"
    ELSE IF r.status = 500 THEN "internal server error"
    ELSE "request failed"

\* C6: for an error response with status 403, 404, 422 or 500 the
\* interceptor displays data.message when present and else the text of that
\* status; for any other status but 401, data.message or the generic text;
\* with no response, the network text.  No refresh call is made and nothing
\* is re-sent; and for the caller's own request (the header's logout, whose
\* handler logs out itself, aside) the auth store is left as it was.
C6_ErrorMessages ==
    [][\A c \in Calls :
          (Answered(c) /\ ~IsOk(calls'[c].resp) /\ ~Is401(calls'[c].resp))
          => /\ C6_Text(calls'[c].resp) \in calls'[c].msgs
             /\ calls'[c].total = calls[c].total
             /\ calls'[c].sent = calls[c].sent
             /\ calls'[c].refreshes = calls[c].refreshes
             /\ (calls[c].depth = 1 /\ calls[c].kind # "logout")
                => UNCHANGED authVars]_vars

C6_Witness ==
    \E c \in Calls :
        /\ calls[c].result = "rejected"
        /\ calls[c].kind = "get"
        /\ calls[c].depth = 1
        /\ calls[c].resp.status = 404
        /\ calls[c].resp.message = Null
        /\ calls[c].msgs = {MsgNotFound}
        /\ isAuthenticated

Failure(r) == r.st = "noresponse" \/ (r.st = "response" /\ r.status # 200)

\* C7: a call whose latest answer is a failure is rejected, unless that
\* answer is a 401 for which a refresh call is now in flight; a call
\* resolves only on a 200 to its own request, and a call that received a 401
\* resolves only after a refresh call was made for it and it was re-sent.
C7_FailuresReject ==
    \A c \in Calls :
        /\ (Failure(calls[c].resp) /\ ~Is401(calls[c].resp)) => calls[c].result = "rejected"
        /\ (Is401(calls[c].resp) /\ calls[c].result # "rejected")
           => (calls[c].result = "pending" /\ calls[c].depth > 1)
        /\ calls[c].result = "resolved"
           => /\ IsOk(calls[c].resp)
              /\ calls[c].depth = 1
              /\ calls[c].got401 => (calls[c].refreshes >= 1 /\ calls[c].sent >= 2)

C7_Witness ==
    \E c \in Calls :
        /\ calls[c].result = "resolved"
        /\ calls[c].got401
        /\ calls[c].sent = 2

----------------------------------------------------------------------------
(* Properties of the workflow pages *)

\* C8: builtin templates are never deleted from the client: every
\* deleteTemplate call in flight, and every selected row key, is for a
\* template whose is_builtin flag is false.
C8_BuiltinNeverDeleted ==
    /\ \A id \in tplDeleting : ~is_builtin(id)
    /\ \A id \in selectedRowKeys : ~is_builtin(id)

C8_Witness ==
    /\ Cardinality(tplDeleting) >= 2
    /\ tplData \cap tplBuiltin # {}
    /\ tplCurrentPage = 2

Edges ==
    {<<"draft", "active">>, <<"active", "suspended">>, <<"active", "completed">>,
     <<"active", "terminated">>, <<"suspended", "active">>}

\* C9: an instance is created in status draft, its status changes only along
\* draft -> active, active -> suspended, active -> completed,
\* active -> terminated and suspended -> active, and a completed or
\* terminated instance keeps its status.
C9_InstanceLifecycle ==
    [][\A i \in InstanceIds :
          srvInstances'[i] # srvInstances[i]
          => IF srvInstances[i] = "none"
             THEN srvInstances'[i] = "draft"
             ELSE /\ <<srvInstances[i], srvInstances'[i]>> \in Edges
                  /\ srvInstances[i] \notin {"completed", "terminated"}]_vars

C9_Witness ==
    \E i \in InstanceIds :
        /\ srvInstances[i] = "completed"
        /\ lastStart.id = i
        /\ lastStart.outcome = "success"
        /\ instData[i] = "draft"

\* C10: a startInstance call that the backend answers for a draft instance
\* makes it active; a call for an instance that is already active (or in any
\* later status) is rejected and leaves the status alone, and then an error
\* message is shown, no success message is shown, the instance list is not
\* invalidated by that call, and the start action accepts clicks again.
C10_StartRejectedSurfaced ==
    [][\A i \in InstanceIds :
          (startPending = i /\ startPending' = 0)
          => /\ lastStart'.id = i
             /\ lastStart'.before = srvInstances[i]
             /\ lastStart'.outcome = "success"
                => /\ srvInstances[i] = "draft"
                   /\ srvInstances'[i] = "active"
                   /\ lastStart'.msgs = {MsgStartOk}
                   /\ instFetching'
             /\ srvInstances[i] # "draft"
                => /\ lastStart'.outcome = "error"
                   /\ srvInstances' = srvInstances
                   /\ lastStart'.msgs \in {{MsgStartFailed}, {ServerDetail}}
                   /\ instFetching' = instFetching
                   /\ instData' = instData
                   /\ startPending' = 0]_vars

C10_Witness ==
    /\ lastStart.outcome = "error"
    /\ lastStart.before = "active"
    /\ instData[lastStart.id] = "draft"
    /\ startPending = 0

\* C11: when a completeTask call is rejected (the node is not the user's, it
\* is not active, or the call fails), an error message is shown and no
\* success message, the completion dialog keeps its visibility and its
\* selected task, the form keeps its values, and neither the 'my-tasks' nor
\* the 'user-task-stats' query is invalidated; a call for a node that is not
\* assigned to the user is rejected.
C11_CompleteRejectedSurfaced ==
    [][\A t \in TaskIds :
          (completePending = t /\ completePending' = 0)
          => /\ lastComplete'.id = t
             /\ ~srvTasks[t].mine => lastComplete'.outcome = "error"
             /\ lastComplete'.outcome = "error"
                => /\ lastComplete'.msgs \in {{MsgCompleteFailed}, {ServerDetail}}
                   /\ completeModalVisible' = completeModalVisible
                   /\ selectedTask' = selectedTask
                   /\ formValues' = formValues
                   /\ tasksFetching' = tasksFetching
                   /\ statsFetching' = statsFetching
                   /\ srvTasks' = srvTasks]_vars

C11_Witness ==
    /\ lastComplete.outcome = "error"
    /\ completePending = 0
    /\ completeModalVisible
    /\ selectedTask.id = lastComplete.id
    /\ formValues = "filled"
    /\ ~srvTasks[lastComplete.id].mine
    /\ ~tasksFetching
    /\ ~statsFetching

----------------------------------------------------------------------------
(* Properties of the supervision pages and services *)

\* C12: the client imposes no transition-legality rules: whatever status the
\* displayed item has, the update-status dialog can be opened, and in the
\* dialog each of the seven statuses can be chosen as the target of
\* changeSupervisionStatus.
C12_NoTransitionRules ==
    /\ (supData # "none" /\ NoSupModal) => ENABLED SupOpenStatusModal
    /\ statusModalVisible => \A t \in SupervisionStatus : ENABLED SupSelectStatus(t)

\* s is a prefix of t
IsPrefix(s, t) == Len(s) <= Len(t) /\ \A i \in 1..Len(s) : t[i] = s[i]

\* C13: progress reports and status logs are append-only: every request
\* supervisionService sends about them reads or adds an entry (none is a PUT
\* or DELETE on an existing one), and every step leaves the existing reports
\* and log entries as they were.
C13_ReportsAppendOnly ==
    [][/\ supRequest'.method \in {"none", "POST"}
       /\ IsPrefix(srvReports, srvReports')
       /\ IsPrefix(srvLogs, srvLogs')]_vars

\* C14: every list request of every resource service carries its pagination
\* as skip / limit: a page argument is sent as skip, a size argument as
\* limit, and no query has a page or size key.
C14_SkipLimitEverywhere ==
    listCall # NoCall
    => /\ listQuery.page = {}
       /\ listQuery.size = {}
       /\ listCall.page # Omitted => listQuery.skip # {}
       /\ listCall.size # Omitted => listQuery.limit # {}

\* the size a call asks for, the default when it is left out
EffectiveSize(size) == IF size # Omitted THEN size ELSE DefaultSize

\* the call in flight is getSupervisionItems or getUsers with a page
PagedCall(call) == call.service \in {"getSupervisionItems", "getUsers"} /\ call.page # Omitted

\* C15: getSupervisionItems and getUsers with page >= 1 request
\* skip = (page - 1) * size and limit = size, with the default size when the
\* size is left out, and receive exactly the items of that window: size of
\* them, fewer on the last page, none beyond it.
C15_PageWindow ==
    [][/\ PagedCall(listCall')
          => /\ listQuery'.skip = {(listCall'.page - 1) * EffectiveSize(listCall'.size)}
             /\ listQuery'.limit = {EffectiveSize(listCall'.size)}
       /\ (PagedCall(listCall) /\ listCall' = NoCall)
          => listItems' = {i \in 1..listTotal :
                             /\ i > (listCall.page - 1) * EffectiveSize(listCall.size)
                             /\ i <= listCall.page * EffectiveSize(listCall.size)}]_vars

----------------------------------------------------------------------------
(* Properties of the monitoring dashboard *)

\* C16: when the user triggers the handle action on an unresolved alert, the
\* client issues PUT /monitoring/alerts/:id/resolve for that alert.
C16_HandleResolvesAlert ==
    [][\A a \in AlertIds :
          (monConsole' = a /\ monConsole # a) => a \in monResolving']_vars

----------------------------------------------------------------------------
(* Properties of the template create / edit dialog *)

\* C17: saving the edit dialog of an existing template sends no definition, and
\* the template's stored definition is the same after the update as before.
C17_EditKeepsDefinition ==
    [][\A id \in EditableIds :
          /\ savePending'.target = id => savePending'.definition = {}
          /\ (savePending.target = id /\ savePending' = NoSave)
             => srvTplDefinition'[id] = srvTplDefinition[id]]_vars

----------------------------------------------------------------------------
(* Properties of polling *)

----------------------------------------------------------------------------
(* Properties of a failed login *)

LoginKinds == {"login", "testLogin"}

\* C20: a login call answered with 401 is rejected with status 401 in the same
\* step, with no refresh call and without being sent again, whether or not a
\* session is stored, and the stored session stays as it was.
C20_LoginUnauthorizedRejects ==
    [][\A c \in Calls :
          (/\ calls[c].kind \in LoginKinds
           /\ calls[c].result = "pending"
           /\ calls[c].depth = 1
           /\ ~calls[c].got401
           /\ calls'[c].got401)
          => /\ calls'[c].result = "rejected"
             /\ calls'[c].errStatus = 401
             /\ calls'[c].refreshes = 0
             /\ calls'[c].sent = 1
             /\ calls'[c].total = 1
             /\ token' = token
             /\ refreshToken' = refreshToken
             /\ isAuthenticated' = isAuthenticated]_vars

----------------------------------------------------------------------------
(* Properties of concurrent refreshes *)

\* the refresh call made for call d is in flight
Refreshing(d) == calls[d].result = "pending" /\ calls[d].depth = 2

\* C19: 401s of concurrent requests are not de-duplicated.  While the refresh
\* call of another request is in flight, a request answered 401 with a refresh
\* token stored starts a refresh call of its own; a refresh that succeeds
\* stores its access token, whatever another refresh stored before, and its
\* request is sent once more; a refresh that fails clears the session; and in
\* each case the other request's refresh stays in flight, so the session ends
\* as the refresh that completes last leaves it.
C19_ConcurrentRefreshes ==
    [][\A c \in Calls : \A d \in Calls \ {c} :
          (Refreshing(d) /\ Answered(c))
          => /\ calls'[d] = calls[d]
             /\ (calls[c].depth = 1 /\ Is401(calls'[c].resp) /\ refreshToken # Null)
                => /\ calls'[c].result = "pending"
                   /\ calls'[c].depth = 2
                   /\ calls'[c].refreshes = calls[c].refreshes + 1
                   /\ calls'[c].total = calls[c].total + 1
             /\ (calls[c].depth = 2 /\ IsOk(calls'[c].resp))
                => /\ token' = calls'[c].resp.data.access_token
                   /\ calls'[c].result = "pending"
                   /\ calls'[c].depth = 1
                   /\ calls'[c].sent = calls[c].sent + 1
             /\ (calls[c].depth = 2 /\ calls'[c].result = "rejected")
                => /\ token' = Null
                   /\ refreshToken' = Null
                   /\ isAuthenticated' = FALSE]_vars

\* two requests, each refreshed on its own and sent again once; the store
\* holds the token of the refresh that completed last
C19_Witness ==
    /\ \A c \in Calls :
          /\ calls[c].result = "pending"
          /\ calls[c].depth = 1
          /\ calls[c].refreshes = 1
          /\ calls[c].sent = 2
    /\ calls[1].auth = "a1"
    /\ calls[2].auth = "a2"
    /\ token = "a2"

----------------------------------------------------------------------------
(* Properties of the completion of tasks *)

\* C21: completeTask is issued only with a task selected and only for a node
\* whose status in the client's current task data is active.
C21_CompleteOnlyActive ==
    [][\A t \in TaskIds :
          (completePending = 0 /\ completePending' = t)
          => /\ selectedTask # NoTask
             /\ selectedTask.id = t
             /\ taskData[t] = "active"]_vars

----------------------------------------------------------------------------
(* Properties of the supervision edit form *)

\* C22: whatever the status of the item being edited, completed and cancelled
\* included, 'save draft' in a valid edit form sends an update with status
\* draft: no check of the item's status stands in the way.
C22_SaveDraftUnchecked ==
    (formMounted /\ formDetailLoaded /\ formComplete /\ Len(updatesInFlight) < MaxUpdates)
    => ENABLED (FormSaveDraft /\ updatesInFlight' = Append(updatesInFlight, "draft"))

\* an update with status draft is in flight for an item that is completed,
\* sent from a form that shows completed
C22_Witness ==
    /\ srvItemStatus = "completed"
    /\ formMounted
    /\ formStatus = "completed"
    /\ updatesInFlight = <<"draft">>

----------------------------------------------------------------------------
(* Properties of logout *)

\* C23: when the logout call of handleLogout settles, resolved or rejected
\* (with 401, another status or no response at all), the session is cleared
\* and the route is /login.
C23_LogoutClearsSession ==
    [][\A c \in Calls :
          (Answered(c) /\ calls[c].kind = "logout" /\ calls'[c].result # "pending")
          => /\ SessionCleared'
             /\ location' = "/login"]_vars

\* a logout call that failed on the network, without the interceptor having
\* cleared anything
C23_Witness ==
    \E c \in Calls :
        /\ calls[c].kind = "logout"
        /\ calls[c].result = "rejected"
        /\ calls[c].resp = NetworkFailure
        /\ calls[c].depth = 1
        /\ SessionCleared
        /\ location = "/login"

----------------------------------------------------------------------------
(* Properties of the apiTester *)

\* C24: runAllTests starts from an empty result list; every endpoint of the
\* fixed order is followed by the next one, whatever its outcome, with one
\* result recorded for it: success when the call resolved (or, for the login
\* endpoint, was rejected with 401 or 404), error when it was rejected.
C24_RunAllTestsCompletes ==
    [][/\ (testPos = 0 /\ testPos' # 0) => (testPos' = 1 /\ testResults' = <<>>)
       /\ \A e \in 1..Len(TestedModules) :
             testPos = e
             => /\ testPos' = IF e = Len(TestedModules) THEN 0 ELSE e + 1
                /\ Len(testResults) = e - 1
                /\ Len(testResults') = e
                /\ testResults'[e].endpoint = e
                /\ testResults'[e].status =
                      IF testOutcome'.result = "resolved"
                         \/ (e = LoginEndpoint /\ testOutcome'.status \in {401, 404})
                      THEN "success" ELSE "error"]_vars

----------------------------------------------------------------------------
(* Properties of the auth store under concurrency *)

\* C25: in every reachable state the four fields of the auth store agree:
\* isAuthenticated is true exactly when token is set, exactly when
\* refreshToken is set, exactly when user is set.
C25_StoreCoherent ==
    /\ isAuthenticated <=> token # Null
    /\ isAuthenticated <=> refreshToken # Null
    /\ isAuthenticated <=> user # Null

\* call c puts a transmission on the wire in this step
Transmits(c) ==
    /\ calls'[c].result = "pending"
    /\ calls[c].result # "pending" \/ calls'[c].total > calls[c].total

\* C26: while no session is held (none yet, or cleared by logout or by a failed
\* refresh, and no login has succeeded since), no request goes out with an
\* Authorization header, also when a refresh call that was in flight resolves.
C26_NoBearerAfterClear ==
    [][\A c \in Calls :
          (Transmits(c) /\ ~isAuthenticated /\ ~isAuthenticated')
          => calls'[c].auth = Null]_vars

\* C27: every transmission through the shared client (a caller's request, a
\* refresh request, a request sent again after a refresh) carries as its
\* Authorization the token the store holds when it is sent, and carries none
\* when the store holds no token.
C27_BearerIsStoreToken ==
    [][\A c \in Calls : Transmits(c) => calls'[c].auth = token']_vars

\* a refresh request in flight that was sent with a1, next to a request sent
\* again with a2 after its own refresh stored a2
C27_Witness ==
    \E c \in Calls : \E d \in Calls :
        /\ calls[c].result = "pending"
        /\ calls[c].depth = 1
        /\ calls[c].sent = 2
        /\ calls[c].auth = "a2"
        /\ token = "a2"
        /\ calls[d].result = "pending"
        /\ calls[d].depth = 2
        /\ calls[d].auth = "a1"

----------------------------------------------------------------------------
(* Properties of the paginated list pages *)

\* C28: whenever the filters used in the list query change, the current page
\* is 1: no list query combines changed filters with a page greater than 1
\* carried over from the previous filters.
C28_FilterChangeResetsPage ==
    [][tplSearchFilters' # tplSearchFilters => tplCurrentPage' = 1]_vars

----------------------------------------------------------------------------
(* Properties of batch deletion *)

\* C29: a batch deletion puts one delete request per selected id in flight at
\* once.  It reports success, clears the selection and invalidates the list
\* only when every delete has succeeded; when a delete fails it reports
\* failure and leaves the selection and the list query as they are, while the
\* deletes that succeeded stay in effect on the server.
C29_BatchDeleteAllOrReport ==
    [][/\ (~batchLoading /\ batchLoading')
          => (deletesInFlight' = blSelected /\ batchIds' = blSelected /\ srvItems' = srvItems)
       /\ (batchLoading /\ ~batchLoading')
          => /\ blMsg' \in {MsgBatchOk, MsgBatchFailed}
             /\ blMsg' = MsgBatchOk <=> blOutcome' = "fulfilled"
             /\ blMsg' = MsgBatchOk
                => /\ batchIds \cap srvItems' = {}
                   /\ blSelected' = {}
                   /\ blFetching'
             /\ blMsg' = MsgBatchFailed
                => /\ blSelected' = blSelected
                   /\ blFetching' = blFetching
                   /\ blData' = blData
                   /\ srvItems' = srvItems
       /\ (batchLoading /\ batchLoading')
          => (blOutcome' = blOutcome \/ blOutcome' = "fulfilled")]_vars

\* failure was reported; an item whose delete succeeded is gone from the
\* server but still displayed and selected, and no refetch is under way
C29_Witness ==
    /\ blMsg = MsgBatchFailed
    /\ ~blFetching
    /\ \E id \in batchIds : id \notin srvItems /\ id \in blData /\ id \in blSelected

----------------------------------------------------------------------------
(* Properties of the store's actions *)

\* C30: after a direct call of a store action the state differs from the state
\* the action was called in only in the action's own fields: setToken(t) sets
\* token to t and keeps isAuthenticated, refreshToken and user; updateUser(u)
\* sets user to u and keeps the other three; the state after logout is one that
\* a further logout leaves as it is; and the copy kept under 'auth-storage'
\* equals the four fields in memory.
C30_StoreActionsFrame ==
    /\ storeCall.op = "setToken"
       => /\ token = storeCall.args.token
          /\ isAuthenticated = storeCall.before.isAuthenticated
          /\ refreshToken = storeCall.before.refreshToken
          /\ user = storeCall.before.user
    /\ storeCall.op = "updateUser"
       => /\ user = storeCall.args.user
          /\ isAuthenticated = storeCall.before.isAuthenticated
          /\ token = storeCall.before.token
          /\ refreshToken = storeCall.before.refreshToken
    /\ storeCall.op = "logout"
       => /\ logout(Store) = Store
          /\ (storeCall.before = StoreInitial => Store = storeCall.before)
    /\ storeCall.op # "none"
       => /\ persisted.isAuthenticated = isAuthenticated
          /\ persisted.user = user
          /\ persisted.token = token
          /\ persisted.refreshToken = refreshToken

\* updateUser was called in a logged-in state with another user than the one held
C30_Witness ==
    /\ storeCall.op = "updateUser"
    /\ storeCall.before.isAuthenticated
    /\ storeCall.before.user # storeCall.args.user
    /\ token # Null
    /\ persisted.user = storeCall.args.user

====
